---- MODULE Spec2Model ----
(***************************************************************************)
(* Verification model of the obsidian-timeline plugin core:                *)
(*   - LayerManager (interval packing into layers)                         *)
(*   - ViewportStateManager (clamps, anchor-preserving zoom)               *)
(*   - InfiniteCanvas.svelte (the viewport state machine)                  *)
(*   - TimelineCacheService / FileService / CardOperations /               *)
(*     TimelineCardManager (the item list of a timeline view)              *)
(*   - ViewportClamping / CardCameraRenderer / CameraSystem (the geometry   *)
(*     of what is drawn)                                                   *)
(*   - TimelineCacheService (the debounced save of the cache file)         *)
(*   - SelectionManager (the selection and its active card)                *)
(*   - TimelinePlugin (the debounced vault 'create' handler)               *)
(*                                                                         *)
(* JavaScript numbers are modelled as exact rationals <<n, d>> (in lowest  *)
(* terms; d = 0 for Infinity and NaN) where the code computes with         *)
(* fractions, and as integers for day counts and layers.  An optional      *)
(* value (T | undefined) is the empty set or a singleton set.              *)
(***************************************************************************)
EXTENDS Integers, Sequences, FiniteSets, TLC

VARIABLES
    \* ---- LayerManager.assignLayers / findAvailableLayerForItems ----
    pkItems,        \* the LayerableItem[] handed to assignLayers (mutated in place)
    pkBefore,       \* the same list as it was before the pass
    pkAssignments,  \* the LayerAssignment[] returned
    pkProbe,        \* the last findAvailableLayerForItems call: its arguments and result
    pkPc,           \* "input" | "assigned" | "probed"
    \* ---- ViewportStateManager.zoomUnified / zoomTimeScaleOnly as pure functions ----
    zmCall,         \* the arguments of the call: anchor, multiplier, current state, viewport width
    zmUnified,      \* optional: the ZoomResult of zoomUnified on zmCall
    zmTimeOnly,     \* optional: the result of zoomTimeScaleOnly on zmCall
    \* ---- InfiniteCanvas.svelte ----
    canvas,         \* the component's $state fields and pendingViewport, as a record
    cvRect,         \* viewportRef.getBoundingClientRect(): width and height of the element
    cvObserved,     \* the ResizeObserver has a notification to deliver
    cvTouches,      \* the fingers on the screen: a list of at most two points
    cvInitialViewport, \* the initialViewport prop (optional)
    cvPc,           \* "created" | "restoreTimer" | "running"
    cvOps,          \* number of viewport operations performed so far
    \* ---- a timeline view: FileService, TimelineCacheService, CardOperations,
    \*      TimelineCardManager ----
    vwFiles,        \* the timeline notes of the vault in scope: dates and timeline-id
    vwNotes,        \* cache.timelines[id].notes: note id -> optional layer
    vwCards,        \* cache.timelines[id].timelineCards: referenced timeline -> optional layer
    vwRefs,         \* the referenced timelines: configured or not, and their span
    vwItems,        \* the TimelineItem[] list of the view
    vwPc,           \* "closed" | "open"
    vwLast,         \* the last operation on the view: "none" | "collect" | "edit"
    vwEdits,        \* number of operations performed on the open view
    \* ---- ViewportClamping, CardCameraRenderer, CameraSystem and the clamps
    \*      as pure functions ----
    gmCall,         \* the function called and its arguments
    gmResult,       \* what it returned
    \* ---- TimelineCacheService: the cache, its file and the saves ----
    csPc,           \* "constructed" | "loaded"
    csCache,        \* this.cache: the number of the mutation that produced it
    csDisk,         \* .timelines/timelines.json: the cache it holds, by which save
    csDirExists,    \* whether the directory .timelines exists
    csTimers,       \* the setTimeout timers that are pending, by id
    csSaveTimeout,  \* this.saveTimeout: null or the id of a timer
    csSaves,        \* the saveCache calls in progress: number, position and content
    csStarted,      \* number of saveCache calls started so far
    csLastWritten,  \* the number of the save whose write the file holds (0: none)
    csOverwritten,  \* whether a write replaced the content of a save started later
    \* ---- SelectionManager ----
    slSelected,     \* selectedIndices: the indices in insertion order
    slActive,       \* activeIndex: null or an index
    slCardData,     \* selectedCardData: null or the index of the card it describes
    slLast,         \* the last call: its name, its index and activeIndex before it
    slCalls,        \* number of calls so far
    \* ---- TimelinePlugin: the vault 'create' handler ----
    plPc,           \* "loaded" | "unloaded"
    plTimeout,      \* this.fileCreateTimeout: null or the timer, holding its file
    plWaiting,      \* the created files the open view has to pick up
    plHandled,      \* the files handleFileCreate has run for
    plCreates       \* number of files created so far

pkVars == <<pkItems, pkBefore, pkAssignments, pkProbe, pkPc>>

zmVars == <<zmCall, zmUnified, zmTimeOnly>>

cvVars == <<canvas, cvRect, cvObserved, cvTouches, cvInitialViewport, cvPc, cvOps>>

vwVars == <<vwFiles, vwNotes, vwCards, vwRefs, vwItems, vwPc, vwLast, vwEdits>>

gmVars == <<gmCall, gmResult>>

csVars == <<csPc, csCache, csDisk, csDirExists, csTimers, csSaveTimeout, csSaves, csStarted,
           csLastWritten, csOverwritten>>

slVars == <<slSelected, slActive, slCardData, slLast, slCalls>>

plVars == <<plPc, plTimeout, plWaiting, plHandled, plCreates>>

svVars == <<csVars, slVars, plVars>>

vars == <<pkVars, zmVars, cvVars, vwVars, gmVars, svVars>>

-----------------------------------------------------------------------------
(* Optional values: T | undefined *)

undefined == {}

Some(v) == {v}

IsDefined(x) == x # {}

ValueOf(x) == CHOOSE v \in x : TRUE

\* a ?? b
OrElse(x, default) == IF x # {} THEN ValueOf(x) ELSE default

Max(a, b) == IF a >= b THEN a ELSE b

Min(a, b) == IF a <= b THEN a ELSE b

-----------------------------------------------------------------------------
(* Exact rational arithmetic for the JavaScript numbers: <<n, d>>, d > 0,    *)
(* and the three values a division by zero gives: <<1, 0>> is Infinity,     *)
(* <<-1, 0>> is -Infinity, <<0, 0>> is NaN                                  *)

RECURSIVE GCD(_, _)
GCD(a, b) == IF b = 0 THEN a ELSE GCD(b, a % b)

Abs(a) == IF a < 0 THEN -a ELSE a

Sgn(a) == IF a < 0 THEN -1 ELSE IF a > 0 THEN 1 ELSE 0

\* the fraction n/d in lowest terms with a positive denominator; n/0 is an
\* infinity of the sign of n, 0/0 is NaN
Frac(n, d) ==
    IF d = 0 THEN <<Sgn(n), 0>>
    ELSE LET g == GCD(Abs(n), Abs(d))
             sgn == IF d < 0 THEN -1 ELSE 1
         IN  <<sgn * (n \div g), sgn * (d \div g)>>

Num(i) == <<i, 1>>

NaN == <<0, 0>>

\* Number.isFinite
IsFinite(a) == a[2] # 0

\* Infinity + Infinity is Infinity, Infinity + -Infinity is NaN
RAdd(a, b) ==
    IF a[2] = 0 /\ b[2] = 0 THEN (IF a = b THEN a ELSE NaN)
    ELSE Frac(a[1] * b[2] + b[1] * a[2], a[2] * b[2])

RSub(a, b) ==
    IF a[2] = 0 /\ b[2] = 0 THEN (IF a[1] = -b[1] THEN a ELSE NaN)
    ELSE Frac(a[1] * b[2] - b[1] * a[2], a[2] * b[2])

RMul(a, b) == Frac(a[1] * b[1], a[2] * b[2])

\* a / b; x / 0 is an infinity of the sign of x, 0 / 0 is NaN
RDiv(a, b) ==
    IF b[1] < 0 THEN Frac(-(a[1] * b[2]), -(a[2] * b[1]))
    ELSE Frac(a[1] * b[2], a[2] * b[1])

\* a comparison with NaN is false
RLe(a, b) ==
    IF a = NaN \/ b = NaN THEN FALSE
    ELSE IF a[2] = 0 /\ b[2] = 0 THEN a[1] <= b[1]
    ELSE a[1] * b[2] <= b[1] * a[2]

RLt(a, b) ==
    IF a = NaN \/ b = NaN THEN FALSE
    ELSE IF a[2] = 0 /\ b[2] = 0 THEN a[1] < b[1]
    ELSE a[1] * b[2] < b[1] * a[2]

\* Math.max and Math.min: NaN when either argument is NaN
RMax(a, b) == IF a = NaN \/ b = NaN THEN NaN ELSE IF RLe(b, a) THEN a ELSE b

RMin(a, b) == IF a = NaN \/ b = NaN THEN NaN ELSE IF RLe(a, b) THEN a ELSE b

-----------------------------------------------------------------------------
(* ViewportStateManager: constants and clamps *)

\* MAX_YEAR * DAYS_PER_YEAR is 7.3e12 days in the program; the model keeps the
\* clamps reachable with a small number of days on either side of the epoch.
MAX_DAYS_FROM_EPOCH == 8

MIN_SCALE == <<1, 2>>

MAX_SCALE == <<2, 1>>

\* the zero-width fallback of getMinTimeScale.  In the program it is 0.001, far
\* above viewportWidth / (2 * MAX_DAYS_FROM_EPOCH) of any screen (about 1e-10)
\* and far below the default timeScale 10; with the small day range of the
\* model the value 1 keeps both relations.
ZERO_WIDTH_MIN_TIME_SCALE == <<1, 1>>

\* a plausible slip: no fallback for a viewport without width
getMinTimeScale_noFallback(viewportWidth) == RDiv(viewportWidth, Num(2 * MAX_DAYS_FROM_EPOCH))

getMinTimeScale(viewportWidth) ==
    IF RLe(viewportWidth, Num(0)) THEN ZERO_WIDTH_MIN_TIME_SCALE
    ELSE RDiv(viewportWidth, Num(2 * MAX_DAYS_FROM_EPOCH))

\* a plausible slip: the floor is added to the value instead of bounding it
clampTimeScale_floorAdded(ts, viewportWidth) == RAdd(getMinTimeScale(viewportWidth), ts)

clampTimeScale(ts, viewportWidth) == RMax(getMinTimeScale(viewportWidth), ts)

\* a plausible slip: only the lower bound is applied
clampScale_noUpper(s) == RMax(MIN_SCALE, s)

clampScale(s) == RMax(MIN_SCALE, RMin(MAX_SCALE, s))

clampTranslateX(translateX, timeScale, viewportWidth) ==
    LET maxTX == RMul(Num(MAX_DAYS_FROM_EPOCH), timeScale)
        minTX == RSub(viewportWidth, RMul(Num(MAX_DAYS_FROM_EPOCH), timeScale))
    IN  RMax(minTX, RMin(maxTX, translateX))

-----------------------------------------------------------------------------
(* TimeScaleManager: the X-axis conversions (worldX = day * timeScale,      *)
(* screenX = worldX + translateX) and the centring helpers                  *)

dayToWorldX(day, timeScale) == RMul(day, timeScale)

worldXToDay(worldX, timeScale) == RDiv(worldX, timeScale)

screenXToDay(screenX, timeScale, translateX) == RDiv(RSub(screenX, translateX), timeScale)

\* translateX = width/2 - worldX
calculateTranslateXToCenterWorldX(worldX, width) == RSub(RDiv(width, Num(2)), worldX)

\* translateY = height/2 - worldY * scale
calculateTranslateYToCenterWorldY(worldY, scale, height) ==
    RSub(RDiv(height, Num(2)), RMul(worldY, scale))

-----------------------------------------------------------------------------
(* ViewportStateManager: zoom toward a screen-space anchor *)

\* a plausible slip: translateX is recomputed with the old timeScale
zoomUnified_staleTimeScale(anchorScreenX, anchorScreenY, zoomMultiplier, current, viewportWidth) ==
    LET newScale == clampScale(RMul(current.scale, zoomMultiplier))
        newTimeScale == clampTimeScale(RMul(current.timeScale, zoomMultiplier), viewportWidth)
        worldTime == screenXToDay(anchorScreenX, current.timeScale, current.translateX)
        worldY == RDiv(RSub(anchorScreenY, current.translateY), current.scale)
        tx == RSub(anchorScreenX, dayToWorldX(worldTime, current.timeScale))
    IN  [scale |-> newScale, timeScale |-> newTimeScale,
         translateX |-> clampTranslateX(tx, newTimeScale, viewportWidth),
         translateY |-> RSub(anchorScreenY, RMul(worldY, newScale))]

\* a plausible slip: the new timeScale is not clamped to the floor
zoomUnified_unclampedTimeScale(anchorScreenX, anchorScreenY, zoomMultiplier, current, viewportWidth) ==
    LET newScale == clampScale(RMul(current.scale, zoomMultiplier))
        newTimeScale == RMul(current.timeScale, zoomMultiplier)
        worldTime == screenXToDay(anchorScreenX, current.timeScale, current.translateX)
        worldY == RDiv(RSub(anchorScreenY, current.translateY), current.scale)
        tx == RSub(anchorScreenX, dayToWorldX(worldTime, newTimeScale))
    IN  [scale |-> newScale, timeScale |-> newTimeScale,
         translateX |-> clampTranslateX(tx, newTimeScale, viewportWidth),
         translateY |-> RSub(anchorScreenY, RMul(worldY, newScale))]

zoomUnified(anchorScreenX, anchorScreenY, zoomMultiplier, current, viewportWidth) ==
    LET newScale == clampScale(RMul(current.scale, zoomMultiplier))
        newTimeScale == clampTimeScale(RMul(current.timeScale, zoomMultiplier), viewportWidth)
        worldTime == screenXToDay(anchorScreenX, current.timeScale, current.translateX)
        worldY == RDiv(RSub(anchorScreenY, current.translateY), current.scale)
        tx == RSub(anchorScreenX, dayToWorldX(worldTime, newTimeScale))
    IN  [scale |-> newScale, timeScale |-> newTimeScale,
         translateX |-> clampTranslateX(tx, newTimeScale, viewportWidth),
         translateY |-> RSub(anchorScreenY, RMul(worldY, newScale))]

\* a plausible slip: translateX is not clamped after re-anchoring
zoomTimeScaleOnly_unclampedTranslateX(anchorScreenX, zoomMultiplier, current, viewportWidth) ==
    LET newTimeScale == clampTimeScale(RMul(current.timeScale, zoomMultiplier), viewportWidth)
        worldTime == screenXToDay(anchorScreenX, current.timeScale, current.translateX)
        tx == RSub(anchorScreenX, dayToWorldX(worldTime, newTimeScale))
    IN  [timeScale |-> newTimeScale, translateX |-> tx]

zoomTimeScaleOnly(anchorScreenX, zoomMultiplier, current, viewportWidth) ==
    LET newTimeScale == clampTimeScale(RMul(current.timeScale, zoomMultiplier), viewportWidth)
        worldTime == screenXToDay(anchorScreenX, current.timeScale, current.translateX)
        tx == RSub(anchorScreenX, dayToWorldX(worldTime, newTimeScale))
    IN  [timeScale |-> newTimeScale,
         translateX |-> clampTranslateX(tx, newTimeScale, viewportWidth)]

-----------------------------------------------------------------------------
(* InfiniteCanvas.svelte: the state and the handlers.  Every handler is an  *)
(* operator from the component state c (and the element's rect and the      *)
(* event) to the component state it leaves.                                 *)

ZOOM_FACTOR == <<1, 10>>

\* |deltaY| below which a pixel-mode wheel event counts as a trackpad
TRACKPAD_DELTA_Y == 50

\* the $state initialisers and pendingViewport = null
CanvasInitial ==
    [scale |-> Num(1), translateX |-> Num(0), translateY |-> Num(0), timeScale |-> Num(10),
     viewportWidth |-> Num(0), viewportHeight |-> Num(0),
     previousViewportWidth |-> Num(0), previousViewportHeight |-> Num(0),
     hadValidDimensions |-> FALSE,
     mouseX |-> undefined, isPanning |-> FALSE,
     lastMouseX |-> Num(0), lastMouseY |-> Num(0),
     lastTouchDistance |-> Num(0),
     viewportRestored |-> FALSE, pendingViewport |-> undefined]

hasValidDimensions(rect) == RLt(Num(0), rect.width) /\ RLt(Num(0), rect.height)

\* the component's wrappers: the clamps at the current viewportWidth / timeScale
cvClampTimeScale(c, ts) == clampTimeScale(ts, c.viewportWidth)

cvClampTranslateX(c) == [c EXCEPT !.translateX = clampTranslateX(c.translateX, c.timeScale, c.viewportWidth)]

cvViewportState(c) ==
    [scale |-> c.scale, timeScale |-> c.timeScale, translateX |-> c.translateX, translateY |-> c.translateY]

cvApplyUnified(c, r) ==
    [c EXCEPT !.scale = r.scale, !.timeScale = r.timeScale,
              !.translateX = r.translateX, !.translateY = r.translateY]

cvApplyTimeOnly(c, r) == [c EXCEPT !.timeScale = r.timeScale, !.translateX = r.translateX]

handleWheel(c, rect, event) ==
    LET isTrackpad == event.deltaMode = 0
                      /\ (Abs(event.deltaX) > 0 \/ Abs(event.deltaY) < TRACKPAD_DELTA_Y)
        isPinch == event.ctrlKey /\ ~event.metaKey
        isCmdHeld == event.metaKey
        delta == IF event.deltaY > 0 THEN RSub(Num(0), ZOOM_FACTOR) ELSE ZOOM_FACTOR
        multiplier == RAdd(Num(1), delta)
        after ==
            IF isTrackpad
            THEN IF isPinch
                 THEN cvApplyUnified(c, zoomUnified(RDiv(rect.width, Num(2)), RDiv(rect.height, Num(2)),
                                                    multiplier, cvViewportState(c), c.viewportWidth))
                 ELSE IF isCmdHeld
                 THEN cvApplyTimeOnly(c, zoomTimeScaleOnly(OrElse(c.mouseX, RDiv(rect.width, Num(2))),
                                                           multiplier, cvViewportState(c), c.viewportWidth))
                 ELSE [c EXCEPT !.translateX = RSub(c.translateX, Num(event.deltaX)),
                                !.translateY = RSub(c.translateY, Num(event.deltaY))]
            ELSE IF event.ctrlKey \/ event.metaKey
                 THEN cvApplyTimeOnly(c, zoomTimeScaleOnly(Num(event.clientX), multiplier,
                                                           cvViewportState(c), c.viewportWidth))
                 ELSE cvApplyUnified(c, zoomUnified(Num(event.clientX), Num(event.clientY), multiplier,
                                                    cvViewportState(c), c.viewportWidth))
    IN  cvClampTranslateX(after)

\* a plausible slip: the drag does not re-clamp translateX
handleMouseMove_unclamped(c, event) ==
    LET seen == [c EXCEPT !.mouseX = Some(Num(event.clientX))]
    IN  IF ~c.isPanning THEN seen
        ELSE [seen EXCEPT !.translateX = RAdd(c.translateX, RSub(Num(event.clientX), c.lastMouseX)),
                          !.translateY = RAdd(c.translateY, RSub(Num(event.clientY), c.lastMouseY)),
                          !.lastMouseX = Num(event.clientX),
                          !.lastMouseY = Num(event.clientY)]

handleMouseMove(c, event) ==
    LET seen == [c EXCEPT !.mouseX = Some(Num(event.clientX))]
    IN  IF ~c.isPanning THEN seen
        ELSE cvClampTranslateX(
                [seen EXCEPT !.translateX = RAdd(c.translateX, RSub(Num(event.clientX), c.lastMouseX)),
                             !.translateY = RAdd(c.translateY, RSub(Num(event.clientY), c.lastMouseY)),
                             !.lastMouseX = Num(event.clientX),
                             !.lastMouseY = Num(event.clientY)])

\* left button only
handleMouseDown(c, event) ==
    IF event.button # 0 THEN c
    ELSE [c EXCEPT !.isPanning = TRUE,
                   !.lastMouseX = Num(event.clientX), !.lastMouseY = Num(event.clientY)]

handleMouseUp(c) == [c EXCEPT !.isPanning = FALSE]

handleMouseLeave(c) == [c EXCEPT !.isPanning = FALSE, !.mouseX = undefined]

handleMouseEnter(c, event) == [c EXCEPT !.mouseX = Some(Num(event.clientX))]

\* Math.sqrt(dx*dx + dy*dy), for two touches on one horizontal or vertical line
getTouchDistance(touch1, touch2) ==
    IF touch1.clientY = touch2.clientY THEN Num(Abs(touch1.clientX - touch2.clientX))
    ELSE Num(Abs(touch1.clientY - touch2.clientY))

handleTouchStart(c, touches) ==
    IF Len(touches) = 1
    THEN [c EXCEPT !.isPanning = TRUE,
                   !.lastMouseX = Num(touches[1].clientX), !.lastMouseY = Num(touches[1].clientY)]
    ELSE IF Len(touches) = 2
    THEN [c EXCEPT !.isPanning = FALSE,
                   !.lastTouchDistance = getTouchDistance(touches[1], touches[2])]
    ELSE c

handleTouchMove(c, touches) ==
    IF Len(touches) = 1 /\ c.isPanning
    THEN cvClampTranslateX(
            [c EXCEPT !.translateX = RAdd(c.translateX, RSub(Num(touches[1].clientX), c.lastMouseX)),
                      !.translateY = RAdd(c.translateY, RSub(Num(touches[1].clientY), c.lastMouseY)),
                      !.lastMouseX = Num(touches[1].clientX),
                      !.lastMouseY = Num(touches[1].clientY)])
    ELSE IF Len(touches) = 2
    THEN LET newDistance == getTouchDistance(touches[1], touches[2])
             scaleFactor == RDiv(newDistance, c.lastTouchDistance)
             centerX == RDiv(Num(touches[1].clientX + touches[2].clientX), Num(2))
             centerY == RDiv(Num(touches[1].clientY + touches[2].clientY), Num(2))
             r == zoomUnified(centerX, centerY, scaleFactor, cvViewportState(c), c.viewportWidth)
         IN  [cvApplyUnified(c, r) EXCEPT !.lastTouchDistance = newDistance]
    ELSE c

handleTouchEnd(c) == [c EXCEPT !.isPanning = FALSE, !.lastTouchDistance = Num(0)]

resetZoom(c) == [c EXCEPT !.scale = Num(1)]

centerView(c, rect) ==
    IF hasValidDimensions(rect)
    THEN [c EXCEPT !.translateX = RDiv(rect.width, Num(2)),
                   !.translateY = RDiv(rect.height, Num(2)),
                   !.viewportRestored = TRUE]
    ELSE c

centerOn(c, rect, worldX, worldY) ==
    [c EXCEPT !.translateX = calculateTranslateXToCenterWorldX(worldX, rect.width),
              !.translateY = calculateTranslateYToCenterWorldY(worldY, c.scale, rect.height)]

centerOnTime(c, rect, days) ==
    [c EXCEPT !.translateX =
        calculateTranslateXToCenterWorldX(dayToWorldX(days, c.timeScale), rect.width)]

fitCardWidth(c, rect, cardStartX, cardWidth) ==
    IF RLe(cardWidth, Num(0)) THEN c
    ELSE LET cardStartDay == worldXToDay(cardStartX, c.timeScale)
             cardEndDay == worldXToDay(RAdd(cardStartX, cardWidth), c.timeScale)
             cardDurationDays == RSub(cardEndDay, cardStartDay)
             newTimeScale == cvClampTimeScale(c, RDiv(rect.width, cardDurationDays))
             cardCenterDay == RAdd(cardStartDay, RDiv(cardDurationDays, Num(2)))
             centerWorldX == dayToWorldX(cardCenterDay, newTimeScale)
         IN  cvClampTranslateX(
                [c EXCEPT !.timeScale = newTimeScale,
                          !.translateX = calculateTranslateXToCenterWorldX(centerWorldX, rect.width)])

fitTimeRange(c, rect, startDay, endDay, centerDay) ==
    LET durationDays == RSub(endDay, startDay)
    IN  IF RLe(durationDays, Num(0)) THEN c
        ELSE LET newTimeScale == cvClampTimeScale(c, RDiv(rect.width, durationDays))
                 centerWorldX == dayToWorldX(centerDay, newTimeScale)
             IN  cvClampTranslateX(
                    [c EXCEPT !.timeScale = newTimeScale,
                              !.translateX = calculateTranslateXToCenterWorldX(centerWorldX, rect.width)])

\* with no usable rect the viewport is kept in pendingViewport; the clamps use
\* rect.width, not the viewportWidth state
setViewport(c, rect, viewport) ==
    IF ~hasValidDimensions(rect) THEN [c EXCEPT !.pendingViewport = Some(viewport)]
    ELSE LET timeScale == clampTimeScale(viewport.timeScale, rect.width)
             scale == clampScale(OrElse(viewport.scale, Num(1)))
             centerWorldX ==
                IF IsDefined(viewport.centerDay)
                THEN dayToWorldX(ValueOf(viewport.centerDay), timeScale)
                ELSE dayToWorldX(worldXToDay(viewport.centerX, viewport.timeScale), timeScale)
         IN  [c EXCEPT !.pendingViewport = undefined,
                       !.timeScale = timeScale,
                       !.scale = scale,
                       !.translateX = clampTranslateX(
                            calculateTranslateXToCenterWorldX(centerWorldX, rect.width),
                            timeScale, rect.width),
                       !.translateY = calculateTranslateYToCenterWorldY(viewport.centerY, scale, rect.height),
                       !.viewportRestored = TRUE]

updateViewportDimensions(c, rect) ==
    LET newWidth == rect.width
        newHeight == rect.height
        hasValidNewDimensions == RLt(Num(0), newWidth) /\ RLt(Num(0), newHeight)
        dimensionsBecameValid == ~c.hadValidDimensions /\ hasValidNewDimensions
    IN  IF dimensionsBecameValid /\ IsDefined(c.pendingViewport)
        THEN LET sized == [c EXCEPT !.viewportWidth = newWidth, !.viewportHeight = newHeight]
                 restored == setViewport(sized, rect, ValueOf(c.pendingViewport))
             IN  [restored EXCEPT !.pendingViewport = undefined,
                                  !.hadValidDimensions = TRUE,
                                  !.previousViewportWidth = newWidth,
                                  !.previousViewportHeight = newHeight]
        ELSE IF /\ c.viewportRestored
                /\ RLt(Num(0), c.previousViewportWidth) /\ RLt(Num(0), c.previousViewportHeight)
                /\ hasValidNewDimensions
                /\ (newWidth # c.previousViewportWidth \/ newHeight # c.previousViewportHeight)
        THEN LET centerTime == screenXToDay(RDiv(c.previousViewportWidth, Num(2)), c.timeScale, c.translateX)
                 centerWorldX == dayToWorldX(centerTime, c.timeScale)
                 centerScreenY == RDiv(c.previousViewportHeight, Num(2))
                 centerWorldY == RDiv(RSub(centerScreenY, c.translateY), c.scale)
                 sized == [c EXCEPT !.viewportWidth = newWidth, !.viewportHeight = newHeight,
                                    !.translateX = calculateTranslateXToCenterWorldX(centerWorldX, newWidth)]
                 clamped == cvClampTranslateX(sized)
             IN  [clamped EXCEPT !.translateY = calculateTranslateYToCenterWorldY(centerWorldY, c.scale, newHeight),
                                 !.previousViewportWidth = newWidth,
                                 !.previousViewportHeight = newHeight,
                                 !.hadValidDimensions = TRUE]
        ELSE IF hasValidNewDimensions
        THEN [c EXCEPT !.viewportWidth = newWidth, !.viewportHeight = newHeight,
                       !.previousViewportWidth = newWidth,
                       !.previousViewportHeight = newHeight,
                       !.hadValidDimensions = TRUE]
        ELSE [c EXCEPT !.viewportWidth = newWidth, !.viewportHeight = newHeight,
                       !.hadValidDimensions = FALSE]

\* a plausible slip: centerY saved in screen pixels, not divided by scale
getViewport_unscaledCenterY(c, rect) ==
    IF ~hasValidDimensions(rect) THEN undefined
    ELSE LET centerTime == screenXToDay(RDiv(rect.width, Num(2)), c.timeScale, c.translateX)
         IN  Some([centerX |-> dayToWorldX(centerTime, c.timeScale),
                   centerDay |-> Some(centerTime),
                   centerY |-> RSub(RDiv(rect.height, Num(2)), c.translateY),
                   timeScale |-> c.timeScale,
                   scale |-> Some(c.scale)])

\* the state for persistence, or null (undefined here) without a usable rect
getViewport(c, rect) ==
    IF ~hasValidDimensions(rect) THEN undefined
    ELSE LET centerTime == screenXToDay(RDiv(rect.width, Num(2)), c.timeScale, c.translateX)
         IN  Some([centerX |-> dayToWorldX(centerTime, c.timeScale),
                   centerDay |-> Some(centerTime),
                   centerY |-> RDiv(RSub(RDiv(rect.height, Num(2)), c.translateY), c.scale),
                   timeScale |-> c.timeScale,
                   scale |-> Some(c.scale)])

\* tick().then(...) of onMount: measure, then centre unless there is a viewport to restore
onMountTick(c, rect, initialViewport) ==
    LET measured == updateViewportDimensions(c, rect)
    IN  IF IsDefined(initialViewport) THEN measured ELSE centerView(measured, rect)

-----------------------------------------------------------------------------
(* Bounds of the packer inputs *)

MaxItems == 3

\* the literal 100 in Math.max(items.length * 2, 100)
MIN_SEARCH == 100

Files == 1..MaxItems

\* day counts of the input intervals: enough for every relation of two ranges
\* (apart, touching at an endpoint, crossing, nested, equal)
Days == 0..2

LastDay == CHOOSE d \in Days : \A x \in Days : x <= d

\* layers an input item may carry in cachedLayer
CachedLayers == {undefined, Some(1)}

\* target layers of a findAvailableLayerForItems call
ProbeTargets == {0, 1}

\* layers an input item may carry in layer before the pass
PriorLayers == {undefined, Some(0)}

-----------------------------------------------------------------------------
(* LayerManager *)

\* a plausible slip: open intervals, touching endpoints do not count
rangesOverlap_open(start1, end1, start2, end2) ==
    start1 < end2 /\ end1 > start2

\* !start1.isAfter(end2) && !end1.isBefore(start2)
rangesOverlap(start1, end1, start2, end2) ==
    ~(start1 > end2) /\ ~(end1 < start2)

\* excludeFile is optional: undefined or Some(file)
isLayerBusy(targetLayer, dateStart, dateEnd, items, excludeFile) ==
    \E k \in 1..Len(items) :
        /\ items[k].file \notin excludeFile
        /\ items[k].layer = Some(targetLayer)
        /\ rangesOverlap(dateStart, dateEnd, items[k].dateStart, items[k].dateEnd)

\* The alternating search loop of assignLayers, from step i on: the layer it
\* assigns, or undefined when the loop runs out (assigned stays false).
RECURSIVE searchLayer(_, _, _, _, _)
searchLayer(i, maxSearch, preferredLayer, item, processedItems) ==
    IF ~(i < maxSearch) THEN undefined
    ELSE IF ~isLayerBusy(preferredLayer + i, item.dateStart, item.dateEnd,
                         processedItems, Some(item.file))
         THEN Some(preferredLayer + i)
    ELSE IF ~isLayerBusy(preferredLayer - i, item.dateStart, item.dateEnd,
                         processedItems, Some(item.file))
         THEN Some(preferredLayer - i)
    ELSE searchLayer(i + 1, maxSearch, preferredLayer, item, processedItems)

\* a plausible slip: the search only ever looks upwards
placeItem_upOnly(item, processedItems, n) ==
    LET preferredLayer == OrElse(item.cachedLayer, 0)
    IN  Some(CHOOSE l \in preferredLayer..(preferredLayer + n) :
                /\ ~isLayerBusy(l, item.dateStart, item.dateEnd, processedItems, undefined)
                /\ \A m \in preferredLayer..(l - 1) :
                      isLayerBusy(m, item.dateStart, item.dateEnd, processedItems, undefined))

\* a plausible slip: a conflict on the preferred layer leaves item.layer as it was
placeItem_giveUp(item, processedItems, n) ==
    LET preferredLayer == OrElse(item.cachedLayer, 0)
    IN  IF ~isLayerBusy(preferredLayer, item.dateStart, item.dateEnd,
                        processedItems, undefined)
        THEN Some(preferredLayer)
        ELSE item.layer

\* The body of the for loop of assignLayers up to the fallback: the value
\* item.layer has after it, against the already processed items;
\* n = items.length.
placeItem(item, processedItems, n) ==
    LET preferredLayer == OrElse(item.cachedLayer, 0)
    IN  IF ~isLayerBusy(preferredLayer, item.dateStart, item.dateEnd,
                        processedItems, undefined)
        THEN Some(preferredLayer)
        ELSE LET maxSearch == Max(n * 2, MIN_SEARCH)
                 found == searchLayer(1, maxSearch, preferredLayer, item, processedItems)
             IN  \* fallback: all layers busy, use preferred and let it overlap
                 IF found # undefined THEN found ELSE Some(preferredLayer)

\* a plausible slip: the delta is taken against the cached layer
recordAssignment_vsCache(assignments, item, newLayer) ==
    IF newLayer # item.cachedLayer
    THEN Append(assignments,
                [file |-> item.file, layer |-> newLayer, previousLayer |-> item.layer])
    ELSE assignments

\* if (item.layer !== previousLayer) assignments.push({file, layer, previousLayer});
\* newLayer is item.layer after placement, item still carries the previous one
recordAssignment(assignments, item, newLayer) ==
    LET previousLayer == item.layer
    IN  IF newLayer # previousLayer
        THEN Append(assignments,
                    [file |-> item.file,
                     layer |-> newLayer,
                     previousLayer |-> IF previousLayer # newLayer
                                       THEN previousLayer ELSE undefined])
        ELSE assignments

\* The for loop of assignLayers from item k on.  st = [items, assignments]:
\* items[1..k-1] are the processed items, carrying their new layers.
RECURSIVE assignFrom(_, _)
assignFrom(k, st) ==
    IF k > Len(st.items) THEN st
    ELSE LET item == st.items[k]
             processedItems == SubSeq(st.items, 1, k - 1)
             newLayer == placeItem(item, processedItems, Len(st.items))
         IN  assignFrom(k + 1,
                 [items |-> [st.items EXCEPT ![k].layer = newLayer],
                  assignments |-> recordAssignment(st.assignments, item, newLayer)])

\* LayerManager.assignLayers(items): the items as mutated and the deltas returned
assignLayers(items) == assignFrom(1, [items |-> items, assignments |-> <<>>])

\* isLayerBusyForItems: the runtime TimelineItem[] list; an item whose date
\* strings do not parse is skipped (parsed is FALSE for it)
isLayerBusyForItems(targetLayer, dateStart, dateEnd, items) ==
    \E k \in 1..Len(items) :
        /\ items[k].layer = Some(targetLayer)
        /\ items[k].parsed
        /\ rangesOverlap(dateStart, dateEnd, items[k].dateStart, items[k].dateEnd)

RECURSIVE probeForItems(_, _, _, _, _, _)
probeForItems(i, maxSearch, target, dateStart, dateEnd, items) ==
    IF ~(i < maxSearch) THEN target
    ELSE IF ~isLayerBusyForItems(target + i, dateStart, dateEnd, items) THEN target + i
    ELSE IF ~isLayerBusyForItems(target - i, dateStart, dateEnd, items) THEN target - i
    ELSE probeForItems(i + 1, maxSearch, target, dateStart, dateEnd, items)

findAvailableLayerForItems(target, dateStart, dateEnd, items) ==
    IF ~isLayerBusyForItems(target, dateStart, dateEnd, items) THEN target
    ELSE probeForItems(1, Max(Len(items) * 2, MIN_SEARCH), target, dateStart, dateEnd, items)

-----------------------------------------------------------------------------
(* The item list of a timeline view: FileService.collectTimelineItems,      *)
(* TimelineCacheService, TimelineCardManager, NoteCreator, CardOperations.  *)
(* A date is its day count; a note id is a value of VwIds; a file is its    *)
(* position in the vault's list.                                            *)

GRID_SPACING == 50

\* -layer * GRID_SPACING
layerToY(layer) == (-layer) * GRID_SPACING

\* a plausible slip: the nearest layer instead of the layer the y lies in
yToLayer_rounded(y) == -((2 * y + GRID_SPACING) \div (2 * GRID_SPACING))

\* -Math.floor(y / GRID_SPACING)
yToLayer(y) == -(y \div GRID_SPACING)

\* Math.round(n / d) for d > 0: halves go up
JsRound(n, d) == (2 * n + d) \div (2 * d)

\* CardOperations.pixelsToDate: the day of a world-X position
pixelsToDate(pixels, timeScale) == JsRound(pixels, timeScale)

\* TimelineCacheService.getNoteId: the timeline-id the metadata cache shows
getNoteId(files, file) == files[file].id

getNoteLayer(notes, noteId) == notes[noteId]

setNoteLayer(notes, noteId, layer) == [notes EXCEPT ![noteId] = Some(layer)]

\* the first loop of assignLayersWithCache: cachedLayer from the cache
withCachedLayers(notes, items, files) ==
    [k \in 1..Len(items) |->
        LET noteId == getNoteId(files, items[k].file)
        IN  IF IsDefined(noteId) /\ IsDefined(getNoteLayer(notes, ValueOf(noteId)))
            THEN [items[k] EXCEPT !.cachedLayer = getNoteLayer(notes, ValueOf(noteId))]
            ELSE items[k]]

\* the last loop of assignLayersWithCache, from item k on: the cache after it
RECURSIVE writeBackLayers(_, _, _, _)
writeBackLayers(k, notes, items, files) ==
    IF k > Len(items) THEN notes
    ELSE LET noteId == getNoteId(files, items[k].file)
         IN  writeBackLayers(k + 1,
                IF IsDefined(noteId) /\ IsDefined(items[k].layer)
                THEN setNoteLayer(notes, ValueOf(noteId), ValueOf(items[k].layer))
                ELSE notes,
                items, files)

\* TimelineCacheService.assignLayersWithCache: the items as mutated, the deltas
\* returned and the cache after it
assignLayersWithCache(notes, items, files) ==
    LET r == assignLayers(withCachedLayers(notes, items, files))
    IN  [items |-> r.items, assignments |-> r.assignments,
         notes |-> writeBackLayers(1, notes, r.items, files)]

cleanupOutOfScopeNotes(notes, validNoteIds) ==
    [noteId \in DOMAIN notes |-> IF noteId \in validNoteIds THEN notes[noteId] ELSE undefined]

\* FileService.convertToTimelineItems
convertToTimelineItems(items, timeScale) ==
    [k \in 1..Len(items) |->
        LET duration == items[k].dateEnd - items[k].dateStart
            layer == OrElse(items[k].layer, 0)
        IN  [type |-> "note", file |-> items[k].file, timelineId |-> "",
             x |-> items[k].dateStart * timeScale,
             y |-> layerToY(layer),
             width |-> Max(duration, 1) * timeScale,
             dateStart |-> items[k].dateStart, dateEnd |-> items[k].dateEnd,
             layer |-> Some(layer), parsed |-> TRUE]]

\* The frontmatter of a file holds each date as a text: "date" for a text that
\* denotes the day in dateStart or dateEnd, "text" for any other text, and
\* "missing" for an absent (or falsy) entry.
FrontmatterTexts == {"date", "text", "missing"}

\* TimelineDate.fromString: the date of a well-formed text, null for any other
fromString(text, day) == IF text = "date" THEN Some(day) ELSE undefined

\* FileService.isFileInScope: the path lies under the root path of the view
isFileInScope(files, file) == files[file].inScope

\* one pass of the loop of collectTimelineItems: whether the file is pushed
\* onto layerableItems
isLayerable(files, file) ==
    /\ isFileInScope(files, file)
    /\ files[file].timeline
    /\ files[file].startText # "missing" /\ files[file].endText # "missing"
    /\ IsDefined(fromString(files[file].startText, files[file].dateStart))
    /\ IsDefined(fromString(files[file].endText, files[file].dateEnd))

\* a plausible slip: break instead of continue at a file whose dates are
\* missing or invalid
layerableFiles_breakOnInvalid(files, order) ==
    LET Keep(file) == isLayerable(files, file)
        bad == { k \in 1..Len(order) :
                    /\ isFileInScope(files, order[k]) /\ files[order[k]].timeline
                    /\ ~isLayerable(files, order[k]) }
        last == IF bad = {} THEN Len(order)
                ELSE (CHOOSE k \in bad : \A j \in bad : k <= j) - 1
    IN  SelectSeq(SubSeq(order, 1, last), Keep)

\* the loop of collectTimelineItems over getMarkdownFiles(): the files it
\* keeps, in the order of the listing
layerableFiles(files, order) ==
    LET Keep(file) == isLayerable(files, file)
    IN  SelectSeq(order, Keep)

\* the list collectTimelineItems builds and hands to assignLayersWithCache
layerableItems(files, order) ==
    LET kept == layerableFiles(files, order)
    IN  [k \in 1..Len(kept) |->
            [file |-> kept[k],
             dateStart |-> ValueOf(fromString(files[kept[k]].startText, files[kept[k]].dateStart)),
             dateEnd |-> ValueOf(fromString(files[kept[k]].endText, files[kept[k]].dateEnd)),
             layer |-> undefined, cachedLayer |-> undefined]]

\* FileService.collectTimelineItems.  order: the files as getMarkdownFiles
\* lists them; files: the metadata a lookup during the pass shows (an id
\* injected by getOrCreateNoteId may not be in it yet)
collectTimelineItems(notes, files, order, timeScale) ==
    LET kept == layerableFiles(files, order)
        r == assignLayersWithCache(notes, layerableItems(files, order), files)
        validNoteIds == UNION { getNoteId(files, kept[k]) : k \in 1..Len(kept) }
    IN  [items |-> convertToTimelineItems(r.items, timeScale),
         notes |-> cleanupOutOfScopeNotes(r.notes, validNoteIds)]

\* TimelineCardManager.collectTimelineCards, from the k-th cached card on.
\* refs[r]: whether the referenced timeline is configured and its span (none
\* for a timeline without items).  st = [items, cards].
RECURSIVE collectCardsFrom(_, _, _, _, _)
collectCardsFrom(k, refIds, refs, timeScale, st) ==
    IF k > Len(refIds) THEN st
    ELSE LET refId == refIds[k]
             cardData == st.cards[refId]
         IN  IF ~IsDefined(cardData) THEN collectCardsFrom(k + 1, refIds, refs, timeScale, st)
             ELSE IF ~refs[refId].configured
             THEN collectCardsFrom(k + 1, refIds, refs, timeScale,
                                   [st EXCEPT !.cards[refId] = undefined])
             ELSE IF ~IsDefined(refs[refId].span)
             THEN collectCardsFrom(k + 1, refIds, refs, timeScale, st)
             ELSE LET span == ValueOf(refs[refId].span)
                      startX == span.startDay * timeScale
                      endX == span.endDay * timeScale
                      item == [type |-> "timeline", file |-> 0, timelineId |-> refId,
                               x |-> startX, y |-> layerToY(ValueOf(cardData)),
                               width |-> endX - startX,
                               dateStart |-> span.startDay, dateEnd |-> span.endDay,
                               layer |-> cardData, parsed |-> TRUE]
                  IN  collectCardsFrom(k + 1, refIds, refs, timeScale,
                                       [st EXCEPT !.items = Append(st.items, item)])

collectTimelineCards(cards, refIds, refs, timeScale) ==
    collectCardsFrom(1, refIds, refs, timeScale, [items |-> <<>>, cards |-> cards])

\* TimelineCardManager.addTimelineCard: the cache's cards after it
addTimelineCard(items, cards, refs, refTimelineId) ==
    IF IsDefined(cards[refTimelineId]) THEN cards
    ELSE IF ~refs[refTimelineId].configured THEN cards
    ELSE IF ~IsDefined(refs[refTimelineId].span) THEN cards
    ELSE LET span == ValueOf(refs[refTimelineId].span)
             finalLayer == findAvailableLayerForItems(0, span.startDay, span.endDay, items)
         IN  [cards EXCEPT ![refTimelineId] = Some(finalLayer)]

\* FileService.updateFileDatesStatic: the frontmatter dates of the file
updateFileDatesStatic(files, file, dateStart, dateEnd) ==
    [files EXCEPT ![file].dateStart = dateStart, ![file].dateEnd = dateEnd,
                  ![file].startText = "date", ![file].endText = "date"]

\* The operations below take and return v = [items, files, notes, cards].

\* CardOperations.resizeItem: notes only
resizeItem(v, index, edge, deltaX, timeScale) ==
    LET item == v.items[index]
        newX == IF edge = "left" THEN item.x + deltaX ELSE item.x
        newWidth == IF edge = "left" THEN item.width - deltaX ELSE item.width + deltaX
        newDateStart == pixelsToDate(newX, timeScale)
        newDateEnd == pixelsToDate(newX + newWidth, timeScale)
    IN  IF item.type # "note" THEN v
        ELSE [v EXCEPT !.items[index] = [item EXCEPT !.x = newX, !.width = newWidth,
                                                     !.dateStart = newDateStart,
                                                     !.dateEnd = newDateEnd],
                       !.files = updateFileDatesStatic(v.files, item.file, newDateStart, newDateEnd)]

\* CardOperations.moveItem
moveItem(v, index, deltaX, deltaY, timeScale) ==
    LET item == v.items[index]
        newX == item.x + deltaX
        newY == item.y + deltaY
        newDateStart == pixelsToDate(newX, timeScale)
        newDateEnd == pixelsToDate(newX + item.width, timeScale)
        newLayer == yToLayer(newY)
        snappedY == layerToY(newLayer)
        moved == [item EXCEPT !.x = newX, !.y = snappedY, !.dateStart = newDateStart,
                              !.dateEnd = newDateEnd, !.layer = Some(newLayer)]
        noteId == getNoteId(v.files, item.file)
    IN  IF item.type = "note"
        THEN [v EXCEPT !.items[index] = moved,
                       !.files = updateFileDatesStatic(v.files, item.file, newDateStart, newDateEnd),
                       !.notes = IF IsDefined(noteId)
                                 THEN setNoteLayer(v.notes, ValueOf(noteId), newLayer)
                                 ELSE v.notes]
        ELSE [v EXCEPT !.items[index] = moved]

\* TimelineCacheService.setTimelineCardLayer: only for a card the cache has
setTimelineCardLayer(cards, referencedTimelineId, layer) ==
    IF IsDefined(cards[referencedTimelineId])
    THEN [cards EXCEPT ![referencedTimelineId] = Some(layer)]
    ELSE cards

\* CardOperations.changeItemLayer
changeItemLayer(v, index, newLayer, newX, newWidth, timeScale) ==
    LET item == v.items[index]
        newY == layerToY(newLayer)
        newDateStart == pixelsToDate(newX, timeScale)
        newDateEnd == pixelsToDate(newX + newWidth, timeScale)
        changed == [item EXCEPT !.x = newX, !.y = newY, !.width = newWidth,
                                !.dateStart = newDateStart, !.dateEnd = newDateEnd,
                                !.layer = Some(newLayer)]
        noteId == getNoteId(v.files, item.file)
    IN  IF item.type = "note"
        THEN [v EXCEPT !.items[index] = changed,
                       !.notes = IF IsDefined(noteId)
                                 THEN setNoteLayer(v.notes, ValueOf(noteId), newLayer)
                                 ELSE v.notes,
                       !.files = updateFileDatesStatic(v.files, item.file, newDateStart, newDateEnd)]
        ELSE [v EXCEPT !.items[index] = changed,
                       !.cards = setTimelineCardLayer(v.cards, item.timelineId, newLayer)]

\* crypto.randomUUID() for the file: an id no other file has
randomUUID(file) == <<"uuid", file>>

\* NoteCreator.createNoteFromClick, given the start day the click snaps to and
\* the duration of three units of the active scale level
createNoteFromClick(v, snappedStartDay, durationDays, worldY, timeScale) ==
    LET endDay == snappedStartDay + durationDays
        targetLayer == yToLayer(worldY)
        finalLayer == findAvailableLayerForItems(targetLayer, snappedStartDay, endDay, v.items)
        newFile == Len(v.files) + 1
        noteId == randomUUID(newFile)
        newItem == [type |-> "note", file |-> newFile, timelineId |-> "",
                    x |-> snappedStartDay * timeScale,
                    y |-> layerToY(finalLayer),
                    width |-> Max(durationDays, 1) * timeScale,
                    dateStart |-> snappedStartDay, dateEnd |-> endDay,
                    layer |-> Some(finalLayer), parsed |-> TRUE]
    IN  [v EXCEPT !.files = Append(v.files, [dateStart |-> snappedStartDay, dateEnd |-> endDay,
                                             startText |-> "date", endText |-> "date",
                                             inScope |-> TRUE, timeline |-> TRUE,
                                             id |-> Some(noteId)]),
                  !.notes = setNoteLayer(v.notes, noteId, finalLayer),
                  !.items = Append(v.items, newItem)]

-----------------------------------------------------------------------------
(* ViewportClamping: the bounds a card is drawn with.  The sources hold the *)
(* module twice: one text computes X without scale (screenX = worldX +      *)
(* translateX), the other, utils/ViewportClamping.ts, relative to the       *)
(* centre of the viewport and with scale applied to X.                      *)

\* CameraSystem: X has no scale, Y has; a viewport of scale 0 converts
\* everything to the origin
worldToViewport(worldX, worldY, viewport) ==
    IF viewport.scale = Num(0) THEN [x |-> Num(0), y |-> Num(0)]
    ELSE [x |-> RAdd(worldX, viewport.translateX),
          y |-> RAdd(RMul(worldY, viewport.scale), viewport.translateY)]

\* a plausible slip: the scale is taken off X as well
viewportToWorld_scaledX(viewportX, viewportY, viewport) ==
    IF viewport.scale = Num(0) THEN [x |-> Num(0), y |-> Num(0)]
    ELSE [x |-> RDiv(RSub(viewportX, viewport.translateX), viewport.scale),
          y |-> RDiv(RSub(viewportY, viewport.translateY), viewport.scale)]

viewportToWorld(viewportX, viewportY, viewport) ==
    IF viewport.scale = Num(0) THEN [x |-> Num(0), y |-> Num(0)]
    ELSE [x |-> RSub(viewportX, viewport.translateX),
          y |-> RDiv(RSub(viewportY, viewport.translateY), viewport.scale)]

getVisibleWorldBounds(viewport) ==
    IF viewport.scale = Num(0)
    THEN [left |-> Num(0), right |-> Num(0), top |-> Num(0), bottom |-> Num(0)]
    ELSE LET topLeft == viewportToWorld(Num(0), Num(0), viewport)
             bottomRight == viewportToWorld(viewport.width, viewport.height, viewport)
         IN  [left |-> topLeft.x, right |-> bottomRight.x,
              top |-> topLeft.y, bottom |-> bottomRight.y]

\* the conversions next to calculateClampedBounds, X without scale
screenToWorld(screenX, screenY, scale, translateX, translateY) ==
    [worldX |-> RSub(screenX, translateX),
     worldY |-> IF scale = Num(0) THEN Num(0) ELSE RDiv(RSub(screenY, translateY), scale)]

worldToScreen(worldX, worldY, scale, translateX, translateY) ==
    [screenX |-> RAdd(worldX, translateX),
     screenY |-> RAdd(RMul(worldY, scale), translateY)]

\* the conversions of ViewportClamping.ts, X with scale
ViewportClamping_screenToWorld(screenX, screenY, scale, translateX, translateY) ==
    [worldX |-> RDiv(RSub(screenX, translateX), scale),
     worldY |-> RDiv(RSub(screenY, translateY), scale)]

ViewportClamping_worldToScreen(worldX, worldY, scale, translateX, translateY) ==
    [screenX |-> RAdd(RMul(worldX, scale), translateX),
     screenY |-> RAdd(RMul(worldY, scale), translateY)]

\* a plausible slip: a card cut on the left keeps its whole width
calculateClampedBounds_uncutLeft(worldX, worldWidth, scale, translateX, viewportWidth) ==
    LET screenLeft == RAdd(worldX, translateX)
        screenRight == RAdd(screenLeft, worldWidth)
        isClampedLeft == RLt(screenLeft, Num(0))
        isClampedRight == RLt(viewportWidth, screenRight)
        isClampedBoth == isClampedLeft /\ isClampedRight
        isCompletelyOutside == RLt(screenRight, Num(0)) \/ RLt(viewportWidth, screenLeft)
        bounds == IF isCompletelyOutside THEN <<worldX, Num(0)>>
                  ELSE IF isClampedBoth THEN <<RSub(Num(0), translateX), viewportWidth>>
                  ELSE IF isClampedLeft THEN <<RSub(Num(0), translateX), worldWidth>>
                  ELSE IF isClampedRight THEN <<worldX, RSub(viewportWidth, screenLeft)>>
                  ELSE <<worldX, worldWidth>>
    IN  [visualX |-> bounds[1], visualWidth |-> bounds[2],
         isClampedLeft |-> isClampedLeft, isClampedRight |-> isClampedRight,
         isClampedBoth |-> isClampedBoth, isCompletelyOutside |-> isCompletelyOutside]

\* calculateClampedBounds, the text without scale on X (scale is accepted and
\* not used)
calculateClampedBounds(worldX, worldWidth, scale, translateX, viewportWidth) ==
    LET screenLeft == RAdd(worldX, translateX)
        screenRight == RAdd(screenLeft, worldWidth)
        isClampedLeft == RLt(screenLeft, Num(0))
        isClampedRight == RLt(viewportWidth, screenRight)
        isClampedBoth == isClampedLeft /\ isClampedRight
        isCompletelyOutside == RLt(screenRight, Num(0)) \/ RLt(viewportWidth, screenLeft)
        bounds == IF isCompletelyOutside THEN <<worldX, Num(0)>>
                  ELSE IF isClampedBoth THEN <<RSub(Num(0), translateX), viewportWidth>>
                  ELSE IF isClampedLeft THEN <<RSub(Num(0), translateX), screenRight>>
                  ELSE IF isClampedRight THEN <<worldX, RSub(viewportWidth, screenLeft)>>
                  ELSE <<worldX, worldWidth>>
    IN  [visualX |-> bounds[1], visualWidth |-> bounds[2],
         isClampedLeft |-> isClampedLeft, isClampedRight |-> isClampedRight,
         isClampedBoth |-> isClampedBoth, isCompletelyOutside |-> isCompletelyOutside]

\* calculateClampedBounds of utils/ViewportClamping.ts
ViewportClamping_calculateClampedBounds(worldX, worldWidth, scale, translateX, viewportWidth) ==
    IF scale = Num(0)
    THEN [visualX |-> worldX, visualWidth |-> Num(0),
          isClampedLeft |-> FALSE, isClampedRight |-> FALSE,
          isClampedBoth |-> FALSE, isCompletelyOutside |-> TRUE]
    ELSE
    LET viewportCenterWorld ==
            RDiv(RSub(Num(0), RSub(translateX, RDiv(viewportWidth, Num(2)))), scale)
        cardLeftRel == RSub(worldX, viewportCenterWorld)
        cardRightRel == RAdd(cardLeftRel, worldWidth)
        viewportHalfWidthWorld == RDiv(RDiv(viewportWidth, Num(2)), scale)
        viewportLeftRel == RSub(Num(0), viewportHalfWidthWorld)
        viewportRightRel == viewportHalfWidthWorld
        isClampedLeft == RLt(cardLeftRel, viewportLeftRel)
        isClampedRight == RLt(viewportRightRel, cardRightRel)
        isClampedBoth == isClampedLeft /\ isClampedRight
        isCompletelyOutside ==
            RLt(cardRightRel, viewportLeftRel) \/ RLt(viewportRightRel, cardLeftRel)
        bounds == IF isCompletelyOutside THEN <<worldX, Num(0)>>
                  ELSE IF isClampedBoth
                  THEN <<RAdd(viewportCenterWorld, viewportLeftRel),
                         RSub(viewportRightRel, viewportLeftRel)>>
                  ELSE IF isClampedRight
                  THEN <<worldX, RSub(RAdd(viewportCenterWorld, viewportRightRel), worldX)>>
                  ELSE IF isClampedLeft
                  THEN <<RAdd(viewportCenterWorld, viewportLeftRel),
                         RSub(cardRightRel, viewportLeftRel)>>
                  ELSE <<worldX, worldWidth>>
    IN  [visualX |-> bounds[1], visualWidth |-> bounds[2],
         isClampedLeft |-> isClampedLeft, isClampedRight |-> isClampedRight,
         isClampedBoth |-> isClampedBoth, isCompletelyOutside |-> isCompletelyOutside]

-----------------------------------------------------------------------------
(* CardCameraRenderer: the rectangle a card is rendered with, in screen     *)
(* coordinates.  card = [x, y, width, height]; viewport = [width, height,   *)
(* translateX, translateY, scale].                                          *)

\* a plausible slip: a card cut on the right keeps its whole width
calculateRenderData_uncutRight(card, viewport) ==
    IF viewport.scale = Num(0)
    THEN [x |-> Num(0), y |-> Num(0), width |-> Num(0), visible |-> FALSE,
          clampedLeft |-> FALSE, clampedRight |-> FALSE]
    ELSE
    LET screenX == RAdd(RMul(card.x, viewport.scale), viewport.translateX)
        screenY == RAdd(RMul(card.y, viewport.scale), viewport.translateY)
        screenWidth == RMul(card.width, viewport.scale)
        screenRight == RAdd(screenX, screenWidth)
        isVisible == ~(\/ RLt(screenRight, Num(0))
                       \/ RLt(viewport.width, screenX)
                       \/ RLt(RAdd(screenY, RMul(card.height, viewport.scale)), Num(0))
                       \/ RLt(viewport.height, screenY))
        isClampedLeft == RLt(screenX, Num(0))
        isClampedRight == RLt(viewport.width, screenRight)
        visual == IF isClampedLeft /\ isClampedRight THEN <<Num(0), viewport.width>>
                  ELSE IF isClampedLeft THEN <<Num(0), screenRight>>
                  ELSE IF isClampedRight THEN <<screenX, screenWidth>>
                  ELSE <<screenX, screenWidth>>
    IN  IF ~isVisible
        THEN [x |-> screenX, y |-> screenY, width |-> screenWidth, visible |-> FALSE,
              clampedLeft |-> FALSE, clampedRight |-> FALSE]
        ELSE [x |-> visual[1], y |-> screenY, width |-> visual[2], visible |-> TRUE,
              clampedLeft |-> isClampedLeft, clampedRight |-> isClampedRight]

\* CardCameraRenderer.calculateRenderData
calculateRenderData(card, viewport) ==
    IF viewport.scale = Num(0)
    THEN [x |-> Num(0), y |-> Num(0), width |-> Num(0), visible |-> FALSE,
          clampedLeft |-> FALSE, clampedRight |-> FALSE]
    ELSE
    LET screenX == RAdd(RMul(card.x, viewport.scale), viewport.translateX)
        screenY == RAdd(RMul(card.y, viewport.scale), viewport.translateY)
        screenWidth == RMul(card.width, viewport.scale)
        screenRight == RAdd(screenX, screenWidth)
        isVisible == ~(\/ RLt(screenRight, Num(0))
                       \/ RLt(viewport.width, screenX)
                       \/ RLt(RAdd(screenY, RMul(card.height, viewport.scale)), Num(0))
                       \/ RLt(viewport.height, screenY))
        isClampedLeft == RLt(screenX, Num(0))
        isClampedRight == RLt(viewport.width, screenRight)
        visual == IF isClampedLeft /\ isClampedRight THEN <<Num(0), viewport.width>>
                  ELSE IF isClampedLeft THEN <<Num(0), screenRight>>
                  ELSE IF isClampedRight THEN <<screenX, RSub(viewport.width, screenX)>>
                  ELSE <<screenX, screenWidth>>
    IN  IF ~isVisible
        THEN [x |-> screenX, y |-> screenY, width |-> screenWidth, visible |-> FALSE,
              clampedLeft |-> FALSE, clampedRight |-> FALSE]
        ELSE [x |-> visual[1], y |-> screenY, width |-> visual[2], visible |-> TRUE,
              clampedLeft |-> isClampedLeft, clampedRight |-> isClampedRight]

-----------------------------------------------------------------------------
(* The parts of the program are exercised one at a time: a specification of *)
(* one part holds the variables of the others at these values.              *)

NoProbe == [target |-> 0, dateStart |-> 0, dateEnd |-> 0, result |-> 0]

PkIdle ==
    /\ pkItems = <<>>
    /\ pkBefore = <<>>
    /\ pkAssignments = <<>>
    /\ pkProbe = NoProbe
    /\ pkPc = "idle"

ZmIdle ==
    /\ zmCall = [anchorScreenX |-> Num(0), anchorScreenY |-> Num(0), zoomMultiplier |-> Num(1),
                 current |-> [scale |-> Num(1), timeScale |-> Num(10),
                              translateX |-> Num(0), translateY |-> Num(0)],
                 viewportWidth |-> Num(0)]
    /\ zmUnified = undefined
    /\ zmTimeOnly = undefined

CvIdle ==
    /\ canvas = CanvasInitial
    /\ cvRect = [width |-> Num(0), height |-> Num(0)]
    /\ cvObserved = FALSE
    /\ cvTouches = <<>>
    /\ cvInitialViewport = undefined
    /\ cvPc = "idle"
    /\ cvOps = 0

VwIdle ==
    /\ vwFiles = <<>>
    /\ vwNotes = <<>>
    /\ vwCards = <<>>
    /\ vwRefs = <<>>
    /\ vwItems = <<>>
    /\ vwPc = "idle"
    /\ vwLast = "none"
    /\ vwEdits = 0

GmIdle ==
    /\ gmCall = [fn |-> "none"]
    /\ gmResult = [fn |-> "none"]

CsIdle ==
    /\ csPc = "idle"
    /\ csCache = 0
    /\ csDisk = undefined
    /\ csDirExists = FALSE
    /\ csTimers = {}
    /\ csSaveTimeout = undefined
    /\ csSaves = {}
    /\ csStarted = 0
    /\ csLastWritten = 0
    /\ csOverwritten = FALSE

SlIdle ==
    /\ slSelected = <<>>
    /\ slActive = undefined
    /\ slCardData = undefined
    /\ slLast = [op |-> "idle", index |-> 0, active |-> undefined]
    /\ slCalls = 0

PlIdle ==
    /\ plPc = "idle"
    /\ plTimeout = undefined
    /\ plWaiting = {}
    /\ plHandled = {}
    /\ plCreates = 0

\* the services are idle
SvIdle == CsIdle /\ SlIdle /\ PlIdle

PkFrame == UNCHANGED <<zmVars, cvVars, vwVars, gmVars, svVars>>

ZmFrame == UNCHANGED <<pkVars, cvVars, vwVars, gmVars, svVars>>

CvFrame == UNCHANGED <<pkVars, zmVars, vwVars, gmVars, svVars>>

VwFrame == UNCHANGED <<pkVars, zmVars, cvVars, gmVars, svVars>>

GmFrame == UNCHANGED <<pkVars, zmVars, cvVars, vwVars, svVars>>

\* the parts other than the services are idle
CoreIdle == PkIdle /\ ZmIdle /\ CvIdle /\ VwIdle /\ GmIdle

CoreFrame == UNCHANGED <<pkVars, zmVars, cvVars, vwVars, gmVars>>

CsFrame == CoreFrame /\ UNCHANGED <<slVars, plVars>>

SlFrame == CoreFrame /\ UNCHANGED <<csVars, plVars>>

PlFrame == CoreFrame /\ UNCHANGED <<csVars, slVars>>

-----------------------------------------------------------------------------
(* Specification of the packer: any input list, then one pass *)

\* the day ranges an input item may carry: dayEnd >= dayStart
Intervals == { iv \in Days \X Days : iv[1] <= iv[2] }

\* The list of n items given by the choice c; position k holds file k, and
\* since the dates and layers at each position are arbitrary every input
\* order occurs.
ItemList(n, c) ==
    [k \in 1..n |-> [file |-> k, dateStart |-> c[k][1][1], dateEnd |-> c[k][1][2],
                     layer |-> c[k][2], cachedLayer |-> c[k][3]]]

\* the scenario of the design notes: A[0,10], B[5,15], C[20,30], no cache
ScenarioABC ==
    << [file |-> 1, dateStart |-> 0,  dateEnd |-> 10, layer |-> undefined, cachedLayer |-> undefined],
       [file |-> 2, dateStart |-> 5,  dateEnd |-> 15, layer |-> undefined, cachedLayer |-> undefined],
       [file |-> 3, dateStart |-> 20, dateEnd |-> 30, layer |-> undefined, cachedLayer |-> undefined] >>

PkInit ==
    /\ ZmIdle
    /\ CvIdle
    /\ VwIdle
    /\ GmIdle
    /\ SvIdle
    /\ \/ \E n \in 0..MaxItems :
            \E c \in [1..n -> Intervals \X PriorLayers \X CachedLayers] :
                pkItems = ItemList(n, c)
       \/ pkItems = ScenarioABC
    /\ pkBefore = pkItems
    /\ pkAssignments = <<>>
    /\ pkProbe = NoProbe
    /\ pkPc = "input"

\* const assignments = LayerManager.assignLayers(items)
PkAssignLayers ==
    /\ pkPc = "input"
    /\ LET r == assignLayers(pkItems)
       IN  /\ pkItems' = r.items
           /\ pkAssignments' = r.assignments
    /\ pkPc' = "assigned"
    /\ UNCHANGED <<pkBefore, pkProbe>>
    /\ PkFrame

\* the assigned list read as the runtime item list
AsTimelineItems(items) ==
    [k \in 1..Len(items) |->
        [layer |-> items[k].layer, parsed |-> TRUE,
         dateStart |-> items[k].dateStart, dateEnd |-> items[k].dateEnd]]

\* LayerManager.findAvailableLayerForItems(target, start, end, items) on the
\* list the pass produced
PkFindAvailable ==
    /\ pkPc = "assigned"
    /\ \E target \in ProbeTargets :
        LET s == 0
            e == LastDay
        IN  pkProbe' = [target |-> target, dateStart |-> s, dateEnd |-> e,
                        result |-> findAvailableLayerForItems(target, s, e,
                                       AsTimelineItems(pkItems))]
    /\ pkPc' = "probed"
    /\ UNCHANGED <<pkItems, pkBefore, pkAssignments>>
    /\ PkFrame

PkNext == PkAssignLayers \/ PkFindAvailable

SpecPacker == PkInit /\ [][PkNext]_vars

-----------------------------------------------------------------------------
(* Claims on the packer *)

\* the overlap of two closed day ranges, as the design states it
ClosedOverlap(a, b) == a.dateStart <= b.dateEnd /\ b.dateStart <= a.dateEnd

PkDone == pkPc # "input"

\* the layer the pass prefers for item k
PkPreferred(k) == OrElse(pkBefore[k].cachedLayer, 0)

\* layer l is taken, at the ranges of item k, by an item placed before k
PkTakenBefore(k, l) ==
    \E j \in 1..(k - 1) : pkItems[j].layer = Some(l) /\ ClosedOverlap(pkItems[j], pkItems[k])

\* C1: after assignLayers no two intervals on the same layer overlap, closed
\* ranges: two intervals that only touch at an endpoint get different layers.
C1_NoOverlapOnALayer ==
    PkDone =>
        \A i, j \in 1..Len(pkItems) :
            (i # j /\ pkItems[i].layer = pkItems[j].layer)
                => ~ClosedOverlap(pkItems[i], pkItems[j])

\* two intervals with the same preferred layer that touch at one endpoint
\* only, and the pass has put them on different layers
C1_Witness ==
    /\ pkPc = "assigned"
    /\ \E i, j \in 1..Len(pkItems) :
          /\ i < j
          /\ pkItems[i].dateEnd = pkItems[j].dateStart
          /\ pkItems[i].dateStart < pkItems[j].dateStart
          /\ pkItems[i].dateEnd < pkItems[j].dateEnd
          /\ PkPreferred(i) = PkPreferred(j)
          /\ pkItems[i].layer # pkItems[j].layer

\* C6: each interval, in input order, lands on the first layer of
\* p, p+1, p-1, p+2, p-2, ... that is free of the intervals placed before it:
\* the layer is free, every layer nearer to p is taken, and a layer below p
\* is chosen only when its mirror above p is taken.  A[0,10], B[5,15],
\* C[20,30] without cache get 0, 1, 0.
C6_AlternatingProbeOrder ==
    PkDone =>
        /\ \A k \in 1..Len(pkItems) :
              LET p == PkPreferred(k)
                  l == ValueOf(pkItems[k].layer)
                  dist == IF l >= p THEN l - p ELSE p - l
              IN  /\ ~PkTakenBefore(k, l)
                  /\ \A d \in 0..(dist - 1) :
                        PkTakenBefore(k, p + d) /\ PkTakenBefore(k, p - d)
                  /\ (l < p) => PkTakenBefore(k, p + dist)
        /\ (pkBefore = ScenarioABC)
              => [k \in 1..3 |-> pkItems[k].layer] = <<Some(0), Some(1), Some(0)>>

\* an interval that found p and p+1 taken and went below p
C6_Witness ==
    /\ pkPc = "assigned"
    /\ \E k \in 1..Len(pkItems) :
          /\ pkItems[k].layer = Some(PkPreferred(k) - 1)
          /\ PkTakenBefore(k, PkPreferred(k))
          /\ PkTakenBefore(k, PkPreferred(k) + 1)

\* C7: the packer never fails: after the pass every interval has one integer
\* layer, which is free of the intervals placed before it or else is the
\* preferred layer (the forced placement); findAvailableLayerForItems
\* likewise returns an integer that is a free layer or else the target.
C7_AlwaysAssigned ==
    /\ PkDone =>
          \A k \in 1..Len(pkItems) :
              /\ Cardinality(pkItems[k].layer) = 1
              /\ ValueOf(pkItems[k].layer) \in Int
              /\ \/ ~PkTakenBefore(k, ValueOf(pkItems[k].layer))
                 \/ pkItems[k].layer = Some(PkPreferred(k))
    /\ (pkPc = "probed") =>
          /\ pkProbe.result \in Int
          /\ \/ pkProbe.result = pkProbe.target
             \/ \A j \in 1..Len(pkItems) :
                   pkItems[j].layer = Some(pkProbe.result)
                       => ~ClosedOverlap(pkItems[j], pkProbe)

\* an input that came without a layer, met a conflict on its preferred layer
\* and was given another one; and a probe that had to leave its target
C7_Witness ==
    /\ pkPc = "probed"
    /\ pkProbe.result # pkProbe.target
    /\ \E k \in 1..Len(pkItems) :
          /\ pkBefore[k].layer = undefined
          /\ PkTakenBefore(k, PkPreferred(k))
          /\ pkItems[k].layer # Some(PkPreferred(k))

\* the positions whose layer the pass changed
PkChanged == { k \in 1..Len(pkItems) : pkItems[k].layer # pkBefore[k].layer }

\* C10: assignLayers returns exactly the deltas: one entry per interval
\* whose layer differs from the one it carried before the pass, with the new
\* layer and the previous one, in input order, and nothing else.
C10_ExactlyTheDeltas ==
    PkDone =>
        /\ Len(pkAssignments) = Cardinality(PkChanged)
        /\ \A k \in PkChanged :
              \E i \in 1..Len(pkAssignments) :
                  pkAssignments[i] = [file |-> pkItems[k].file,
                                      layer |-> pkItems[k].layer,
                                      previousLayer |-> pkBefore[k].layer]
        /\ \A i \in 1..Len(pkAssignments) :
              /\ pkAssignments[i].file \in { pkItems[k].file : k \in PkChanged }
              /\ \A j \in 1..Len(pkAssignments) :
                    i < j => pkAssignments[i].file < pkAssignments[j].file

\* a pass that moved one interval off the layer it carried, kept another on
\* its layer, and gave a first layer to a third
C10_Witness ==
    /\ pkPc = "assigned"
    /\ \E a, b, c \in 1..Len(pkItems) :
          /\ pkBefore[a].layer # undefined /\ pkItems[a].layer # pkBefore[a].layer
          /\ pkBefore[b].layer # undefined /\ pkItems[b].layer = pkBefore[b].layer
          /\ pkBefore[c].layer = undefined

-----------------------------------------------------------------------------
(* Specification of the zoom functions: any call, then the two functions *)

ZmScales == { Frac(1, 2), Num(1), Frac(3, 2), Num(2) }

ZmTimeScales == { Frac(1, 4), Num(1), Num(10) }

ZmTranslateXs == { Num(-76), Num(-6), Num(0), Num(2), Num(8), Num(80) }

ZmTranslateYs == { Num(0), Num(3) }

ZmWidths == { Num(0), Num(4), Num(8) }

ZmAnchorXs == { Num(0), Num(2), Num(8) }

ZmAnchorYs == { Num(0), Num(3) }

ZmMultipliers == { Frac(1, 2), Frac(9, 10), Frac(11, 10), Num(2) }


\* translateX is inside the clamp range of (timeScale, viewportWidth)
InClampRange(translateX, timeScale, viewportWidth) ==
    LET span == RMul(Num(MAX_DAYS_FROM_EPOCH), timeScale)
    IN  RLe(RSub(viewportWidth, span), translateX) /\ RLe(translateX, span)

\* the current state of a call is a state the clamps leave: scale within its
\* limits and translateX within the clamp range
ZmInit ==
    /\ PkIdle
    /\ CvIdle
    /\ VwIdle
    /\ GmIdle
    /\ SvIdle
    /\ zmCall \in [anchorScreenX : ZmAnchorXs, anchorScreenY : ZmAnchorYs,
                    zoomMultiplier : ZmMultipliers,
                    current : [scale : ZmScales, timeScale : ZmTimeScales,
                               translateX : ZmTranslateXs, translateY : ZmTranslateYs],
                    viewportWidth : ZmWidths]
    /\ InClampRange(zmCall.current.translateX, zmCall.current.timeScale, zmCall.viewportWidth)
    /\ zmUnified = undefined
    /\ zmTimeOnly = undefined

\* const r = zoomUnified(ax, ay, m, current, viewportWidth)
ZmZoomUnified ==
    /\ zmUnified = undefined
    /\ zmUnified' = Some(zoomUnified(zmCall.anchorScreenX, zmCall.anchorScreenY,
                                     zmCall.zoomMultiplier, zmCall.current,
                                     zmCall.viewportWidth))
    /\ UNCHANGED <<zmCall, zmTimeOnly>>
    /\ ZmFrame

\* const r = zoomTimeScaleOnly(ax, m, current, viewportWidth)
ZmZoomTimeScaleOnly ==
    /\ zmTimeOnly = undefined
    /\ zmTimeOnly' = Some(zoomTimeScaleOnly(zmCall.anchorScreenX, zmCall.zoomMultiplier,
                                            zmCall.current, zmCall.viewportWidth))
    /\ UNCHANGED <<zmCall, zmUnified>>
    /\ ZmFrame

ZmNext == ZmZoomUnified \/ ZmZoomTimeScaleOnly

SpecZoom == ZmInit /\ [][ZmNext]_vars

-----------------------------------------------------------------------------
(* Claims on the zoom functions *)

\* the world point under a screen point: X has no scale, Y has
AnchorWorldX(screenX, st) == RDiv(RSub(screenX, st.translateX), st.timeScale)

AnchorWorldY(screenY, st) == RDiv(RSub(screenY, st.translateY), st.scale)

\* the translateX that keeps the anchor's world time under the anchor at
\* the time scale of the result r
ZmIdealTranslateX(r) ==
    RSub(zmCall.anchorScreenX,
         RMul(AnchorWorldX(zmCall.anchorScreenX, zmCall.current), r.timeScale))

\* that translateX lies in the clamp range of the result
ZmIdealInRange(r) ==
    LET span == RMul(Num(MAX_DAYS_FROM_EPOCH), r.timeScale)
    IN  /\ RLe(RSub(zmCall.viewportWidth, span), ZmIdealTranslateX(r))
        /\ RLe(ZmIdealTranslateX(r), span)

ZmKeepsAnchorX(r) ==
    AnchorWorldX(zmCall.anchorScreenX, r) = AnchorWorldX(zmCall.anchorScreenX, zmCall.current)

ZmKeepsAnchorY(r) ==
    AnchorWorldY(zmCall.anchorScreenY, r) = AnchorWorldY(zmCall.anchorScreenY, zmCall.current)

\* C2 as stated: for every state, viewport width, anchor and multiplier the
\* world point under the anchor is the same before and after zoomUnified, in
\* X and in Y, and the same in X after zoomTimeScaleOnly.
C2_AnchorInvariantAlways ==
    /\ \A r \in zmUnified : ZmKeepsAnchorX(r) /\ ZmKeepsAnchorY(r)
    /\ \A r \in zmTimeOnly : ZmKeepsAnchorX(r)

\* C2 amended: the world Y under the anchor is always the same after
\* zoomUnified; the world X under the anchor is the same after zoomUnified
\* and zoomTimeScaleOnly whenever the anchor-preserving translateX lies in
\* the clamp range [vw - MAX_DAYS*timeScale, MAX_DAYS*timeScale] of the
\* result, and otherwise translateX is the bound of that range it crossed.
C2_AnchorInvariantUnlessClamped ==
    /\ \A r \in zmUnified : ZmKeepsAnchorY(r)
    /\ \A r \in zmUnified \cup zmTimeOnly :
          LET span == RMul(Num(MAX_DAYS_FROM_EPOCH), r.timeScale)
          IN  /\ ZmIdealInRange(r) => ZmKeepsAnchorX(r)
              /\ RLt(span, ZmIdealTranslateX(r)) => r.translateX = span
              /\ RLt(ZmIdealTranslateX(r), RSub(zmCall.viewportWidth, span))
                    => r.translateX = RSub(zmCall.viewportWidth, span)

\* a zoom that changed both scales, moved translateX and translateY, stayed
\* inside the clamp range, and kept the anchor
C2_Witness ==
    /\ zmTimeOnly # undefined
    /\ \E r \in zmUnified :
          /\ r.scale # zmCall.current.scale
          /\ r.timeScale # zmCall.current.timeScale
          /\ r.translateX # zmCall.current.translateX
          /\ r.translateY # zmCall.current.translateY
          /\ ZmIdealInRange(r)
          /\ ZmKeepsAnchorX(r)

\* the current state of the call is within the clamp bounds: scale within its
\* limits, timeScale at or above the floor of the viewport width
ZmCurrentInBounds ==
    /\ RLe(MIN_SCALE, zmCall.current.scale) /\ RLe(zmCall.current.scale, MAX_SCALE)
    /\ RLe(getMinTimeScale(zmCall.viewportWidth), zmCall.current.timeScale)

\* C17: zoomUnified returns scale = clampScale(cur.scale * m) and timeScale =
\* clampTimeScale(cur.timeScale * m, vw); for a current state within the clamp
\* bounds a multiplier > 1 never decreases scale or timeScale and strictly
\* increases each one that is not at its upper clamp (timeScale has none), and a
\* multiplier < 1 never increases them and strictly decreases each one that is
\* not at its lower clamp.
C17_ZoomIsMonotone ==
    \A r \in zmUnified :
       LET cur == zmCall.current
           m == zmCall.zoomMultiplier
           floor == getMinTimeScale(zmCall.viewportWidth)
       IN  /\ r.scale = clampScale(RMul(cur.scale, m))
           /\ r.timeScale = clampTimeScale(RMul(cur.timeScale, m), zmCall.viewportWidth)
           /\ (ZmCurrentInBounds /\ RLt(Num(1), m)) =>
                 /\ RLe(cur.scale, r.scale) /\ RLe(cur.timeScale, r.timeScale)
                 /\ cur.scale # MAX_SCALE => RLt(cur.scale, r.scale)
                 /\ RLt(cur.timeScale, r.timeScale)
           /\ (ZmCurrentInBounds /\ RLt(m, Num(1))) =>
                 /\ RLe(r.scale, cur.scale) /\ RLe(r.timeScale, cur.timeScale)
                 /\ cur.scale # MIN_SCALE => RLt(r.scale, cur.scale)
                 /\ cur.timeScale # floor => RLt(r.timeScale, cur.timeScale)

\* a zoom out of a state within the bounds whose scale is at MIN_SCALE and whose
\* timeScale is above the floor: scale stays, timeScale comes down onto the floor
C17_Witness ==
    /\ ZmCurrentInBounds
    /\ RLt(zmCall.zoomMultiplier, Num(1))
    /\ zmCall.current.scale = MIN_SCALE
    /\ \E r \in zmUnified :
          /\ r.scale = MIN_SCALE
          /\ r.timeScale = getMinTimeScale(zmCall.viewportWidth)
          /\ RLt(r.timeScale, zmCall.current.timeScale)

-----------------------------------------------------------------------------
(* Specification of the canvas: the component is mounted in an element of   *)
(* some size, with or without a viewport to restore, and then receives      *)
(* pointer events, calls of its exported functions and resizes in any order *)

\* number of events, calls of exported functions and resizes in a run
MaxOps == 2

\* the sizes the element takes: hidden, narrow, wide
CvRects == { [width |-> Num(0), height |-> Num(0)],
             [width |-> Num(4), height |-> Num(4)],
             [width |-> Num(8), height |-> Num(4)] }

\* persisted viewports: the default record, a legacy one without centerDay and
\* scale, and two with a timeScale or a scale beyond the limits
CvViewports ==
    { [centerX |-> Num(0), centerDay |-> Some(Num(0)), centerY |-> Num(0),
       timeScale |-> Num(10), scale |-> Some(Num(1))],
      [centerX |-> Num(4), centerDay |-> undefined, centerY |-> Num(1),
       timeScale |-> Num(1), scale |-> undefined],
      [centerX |-> Num(1), centerDay |-> Some(Num(2)), centerY |-> Num(0),
       timeScale |-> <<1, 8>>, scale |-> Some(Num(3))],
      [centerX |-> Num(-1), centerDay |-> Some(Num(-4)), centerY |-> Num(0),
       timeScale |-> <<1, 4>>, scale |-> Some(<<1, 4>>)] }

\* one wheel event for each branch of handleWheel: trackpad pinch, trackpad
\* scroll with Cmd, two-finger scroll, Ctrl + mouse wheel, mouse wheel in pixel
\* mode and in line mode
CvWheelEvents ==
    { [deltaMode |-> 0, ctrlKey |-> TRUE,  metaKey |-> FALSE, deltaX |-> 0, deltaY |-> 2,    clientX |-> 4, clientY |-> 2],
      [deltaMode |-> 0, ctrlKey |-> FALSE, metaKey |-> TRUE,  deltaX |-> 0, deltaY |-> -2,   clientX |-> 4, clientY |-> 2],
      [deltaMode |-> 0, ctrlKey |-> FALSE, metaKey |-> FALSE, deltaX |-> 2, deltaY |-> -100, clientX |-> 4, clientY |-> 2],
      [deltaMode |-> 0, ctrlKey |-> TRUE,  metaKey |-> FALSE, deltaX |-> 0, deltaY |-> 100,  clientX |-> 4, clientY |-> 2],
      [deltaMode |-> 0, ctrlKey |-> FALSE, metaKey |-> FALSE, deltaX |-> 0, deltaY |-> -100, clientX |-> 4, clientY |-> 2],
      [deltaMode |-> 1, ctrlKey |-> FALSE, metaKey |-> FALSE, deltaX |-> 0, deltaY |-> 2,    clientX |-> 0, clientY |-> 2] }

CvMouseEvents == [button : {0, 2}, clientX : {0, 4}, clientY : {2, 5}]

CvTouchPoints == { [clientX |-> 0, clientY |-> 2], [clientX |-> 4, clientY |-> 2],
                   [clientX |-> 4, clientY |-> 5] }

\* two fingers, at distance 4 or 8
CvTouchPairs == { <<[clientX |-> 0, clientY |-> 2], [clientX |-> 4, clientY |-> 2]>>,
                  <<[clientX |-> 0, clientY |-> 2], [clientX |-> 8, clientY |-> 2]>> }

\* days handed to centerOnTime and fitTimeRange: the epoch and the two ends of
\* the day range of the viewport
CvDays == { -MAX_DAYS_FROM_EPOCH, 0, MAX_DAYS_FROM_EPOCH }

CvWorldXs == { Num(0), Num(20) }

CvWorldYs == { Num(0), Num(-50) }

CvCardWidths == { Num(0), Num(20) }

CvInit ==
    /\ PkIdle
    /\ ZmIdle
    /\ VwIdle
    /\ GmIdle
    /\ SvIdle
    /\ canvas = CanvasInitial
    /\ cvRect \in CvRects
    /\ cvObserved = FALSE
    /\ cvTouches = <<>>
    /\ cvInitialViewport \in {undefined} \cup { Some(v) : v \in CvViewports }
    /\ cvPc = "created"
    /\ cvOps = 0

CvMounted == cvPc \in {"restoreTimer", "running"}

\* pointer events reach an element that is on the screen
CvVisible == CvMounted /\ hasValidDimensions(cvRect)

\* onMount: the tick callback; the ResizeObserver starts observing and reports
\* the size of an element that has one
CvMount ==
    /\ cvPc = "created"
    /\ canvas' = onMountTick(canvas, cvRect, cvInitialViewport)
    /\ cvPc' = IF IsDefined(cvInitialViewport) THEN "restoreTimer" ELSE "running"
    /\ cvObserved' = hasValidDimensions(cvRect)
    /\ UNCHANGED <<cvRect, cvTouches, cvInitialViewport, cvOps>>
    /\ CvFrame

\* setTimeout(() => setViewport(initialViewport), 0)
CvRestoreTimer ==
    /\ cvPc = "restoreTimer"
    /\ canvas' = setViewport(canvas, cvRect, ValueOf(cvInitialViewport))
    /\ cvPc' = "running"
    /\ UNCHANGED <<cvRect, cvObserved, cvTouches, cvInitialViewport, cvOps>>
    /\ CvFrame

\* the pane is resized, hidden or shown
CvResize ==
    /\ CvMounted /\ cvOps < MaxOps
    /\ \E rect \in CvRects \ {cvRect} : cvRect' = rect
    /\ cvObserved' = TRUE
    /\ cvOps' = cvOps + 1
    /\ UNCHANGED <<canvas, cvTouches, cvInitialViewport, cvPc>>
    /\ CvFrame

\* the ResizeObserver callback
CvResizeObserved ==
    /\ CvMounted
    /\ cvObserved
    /\ canvas' = updateViewportDimensions(canvas, cvRect)
    /\ cvObserved' = FALSE
    /\ UNCHANGED <<cvRect, cvTouches, cvInitialViewport, cvPc, cvOps>>
    /\ CvFrame

\* a handler or exported function that works on the component state alone
CvStep(after) ==
    /\ cvOps < MaxOps
    /\ canvas' = after
    /\ cvOps' = cvOps + 1
    /\ UNCHANGED <<cvRect, cvObserved, cvTouches, cvInitialViewport, cvPc>>
    /\ CvFrame

CvWheel ==
    /\ CvVisible
    /\ \E event \in CvWheelEvents : CvStep(handleWheel(canvas, cvRect, event))

CvMouseMove ==
    /\ CvVisible
    /\ \E event \in CvMouseEvents : CvStep(handleMouseMove(canvas, event))

CvMouseDown ==
    /\ CvVisible
    /\ \E event \in CvMouseEvents : CvStep(handleMouseDown(canvas, event))

CvMouseUp == CvVisible /\ CvStep(handleMouseUp(canvas))

CvMouseLeave == CvVisible /\ CvStep(handleMouseLeave(canvas))

CvMouseEnter ==
    /\ CvVisible
    /\ \E event \in CvMouseEvents : CvStep(handleMouseEnter(canvas, event))

\* a finger (or two at once) comes down
CvTouchStart ==
    /\ CvVisible /\ cvOps < MaxOps
    /\ \E touches \in { <<p>> : p \in CvTouchPoints } \cup CvTouchPairs :
          /\ \/ cvTouches = <<>>
             \/ Len(cvTouches) = 1 /\ Len(touches) = 2 /\ touches[1] = cvTouches[1]
          /\ canvas' = handleTouchStart(canvas, touches)
          /\ cvTouches' = touches
    /\ cvOps' = cvOps + 1
    /\ UNCHANGED <<cvRect, cvObserved, cvInitialViewport, cvPc>>
    /\ CvFrame

CvTouchMove ==
    /\ CvMounted /\ cvTouches # <<>> /\ cvOps < MaxOps
    /\ \E touches \in { <<p>> : p \in CvTouchPoints } \cup CvTouchPairs :
          /\ Len(touches) = Len(cvTouches) /\ touches # cvTouches
          /\ canvas' = handleTouchMove(canvas, touches)
          /\ cvTouches' = touches
    /\ cvOps' = cvOps + 1
    /\ UNCHANGED <<cvRect, cvObserved, cvInitialViewport, cvPc>>
    /\ CvFrame

\* one finger or all fingers are lifted
CvTouchEnd ==
    /\ CvMounted /\ cvTouches # <<>> /\ cvOps < MaxOps
    /\ canvas' = handleTouchEnd(canvas)
    /\ \/ cvTouches' = <<>>
       \/ Len(cvTouches) = 2 /\ cvTouches' = <<cvTouches[1]>>
    /\ cvOps' = cvOps + 1
    /\ UNCHANGED <<cvRect, cvObserved, cvInitialViewport, cvPc>>
    /\ CvFrame

CvResetZoom == CvVisible /\ CvStep(resetZoom(canvas))

CvCenterOn ==
    /\ CvMounted
    /\ \E worldX \in CvWorldXs, worldY \in CvWorldYs :
          CvStep(centerOn(canvas, cvRect, worldX, worldY))

CvCenterOnTime ==
    /\ CvMounted
    /\ \E days \in CvDays : CvStep(centerOnTime(canvas, cvRect, Num(days)))

CvFitCardWidth ==
    /\ CvMounted
    /\ \E cardStartX \in CvWorldXs, cardWidth \in CvCardWidths :
          CvStep(fitCardWidth(canvas, cvRect, cardStartX, cardWidth))

CvFitTimeRange ==
    /\ CvMounted
    /\ \E startDay \in CvDays, endDay \in CvDays :
          CvStep(fitTimeRange(canvas, cvRect, Num(startDay), Num(endDay),
                              RDiv(Num(startDay + endDay), Num(2))))

CvSetViewport ==
    /\ CvMounted
    /\ \E viewport \in CvViewports : CvStep(setViewport(canvas, cvRect, viewport))

CvNext ==
    \/ CvMount \/ CvRestoreTimer \/ CvResize \/ CvResizeObserved
    \/ CvWheel \/ CvMouseMove \/ CvMouseDown \/ CvMouseUp \/ CvMouseLeave \/ CvMouseEnter
    \/ CvTouchStart \/ CvTouchMove \/ CvTouchEnd
    \/ CvResetZoom \/ CvCenterOn \/ CvCenterOnTime \/ CvFitCardWidth \/ CvFitTimeRange
    \/ CvSetViewport

SpecCanvas == CvInit /\ [][CvNext]_vars

-----------------------------------------------------------------------------
(* Claims on the canvas *)

\* the component is mounted in an element that is on the screen and no resize
\* is waiting to be observed: the viewportWidth state is the width of the element
CvSettled == CvVisible /\ ~cvObserved /\ canvas.viewportWidth = cvRect.width

\* the floor of the design: viewportWidth / (2 * MAX_DAYS)
CvMinTimeScale(viewportWidth) == RDiv(viewportWidth, Num(2 * MAX_DAYS_FROM_EPOCH))

InScaleRange(scale) == RLe(MIN_SCALE, scale) /\ RLe(scale, MAX_SCALE)

\* multipliers far beyond what one wheel notch or pinch step gives
CvAnyMultipliers == { <<1, 10>>, <<1, 2>>, Num(2), Num(10) }

\* C3: after every completed viewport operation translateX lies in
\* [viewportWidth - MAX_DAYS * timeScale, MAX_DAYS * timeScale] for the current
\* timeScale and viewportWidth (here: in every settled state of a visible canvas).
C3_TranslateXAlwaysClamped ==
    CvSettled => InClampRange(canvas.translateX, canvas.timeScale, canvas.viewportWidth)

\* C4: in every state of the canvas timeScale is at least
\* viewportWidth / (2 * MAX_DAYS) for the current viewportWidth, also after the
\* viewport has been widened (here: in every settled state of a visible canvas).
C4_TimeScaleAtLeastFloor ==
    CvSettled => RLe(CvMinTimeScale(canvas.viewportWidth), canvas.timeScale)

C15_SameInXForEveryCall ==
    \A u \in zmUnified : \A x \in zmTimeOnly :
        u.timeScale = x.timeScale /\ u.translateX = x.translateX

\* the wheel events that take a time-scale zoom branch of handleWheel: Cmd on
\* a trackpad event, Ctrl or Cmd on a mouse wheel event
CvIsTrackpad(event) ==
    event.deltaMode = 0 /\ (Abs(event.deltaX) > 0 \/ Abs(event.deltaY) < TRACKPAD_DELTA_Y)

CvIsTimeScaleZoom(event) ==
    IF CvIsTrackpad(event) THEN ~(event.ctrlKey /\ ~event.metaKey) /\ event.metaKey
    ELSE event.ctrlKey \/ event.metaKey

\* the anchor and the multiplier such an event zooms with
CvZoomAnchorX(event) ==
    IF CvIsTrackpad(event) THEN OrElse(canvas.mouseX, RDiv(cvRect.width, Num(2)))
    ELSE Num(event.clientX)

CvZoomMultiplier(event) ==
    IF event.deltaY > 0 THEN RSub(Num(1), ZOOM_FACTOR) ELSE RAdd(Num(1), ZOOM_FACTOR)

CvAnchorYs == { Num(0), Num(2), Num(3) }

\* C15: zoomTimeScaleOnly(ax, m, cur, vw) returns the timeScale and translateX
\* of zoomUnified(ax, ay, m, cur, vw) for every ay, and the Ctrl/Cmd + wheel
\* handlers of the canvas, which call it, leave scale and translateY exactly as
\* they were (here: for every such event on every state of a visible canvas
\* that takes another event).
C15_TimeScaleZoomIsUnifiedZoomInX ==
    (CvVisible /\ cvOps < MaxOps) =>
       \A event \in { e \in CvWheelEvents : CvIsTimeScaleZoom(e) } :
          LET after == handleWheel(canvas, cvRect, event)
              x == zoomTimeScaleOnly(CvZoomAnchorX(event), CvZoomMultiplier(event),
                                     cvViewportState(canvas), canvas.viewportWidth)
          IN  /\ after.scale = canvas.scale
              /\ after.translateY = canvas.translateY
              /\ \A ay \in CvAnchorYs :
                     LET u == zoomUnified(CvZoomAnchorX(event), ay, CvZoomMultiplier(event),
                                          cvViewportState(canvas), canvas.viewportWidth)
                     IN  u.timeScale = x.timeScale /\ u.translateX = x.translateX

\* a mounted canvas after one notch of a Ctrl/Cmd + wheel event: timeScale has
\* changed, scale and translateY are as the mount left them
C15_Witness ==
    /\ CvVisible
    /\ cvOps = 1
    /\ canvas.scale = Num(1)
    /\ canvas.timeScale \in { RMul(Num(10), RAdd(Num(1), ZOOM_FACTOR)),
                              RMul(Num(10), RSub(Num(1), ZOOM_FACTOR)) }
    /\ canvas.translateY = RDiv(cvRect.height, Num(2))

\* the canvas after a plain pan of the state c by (dx, dy)
CvPanned(c, after, dx, dy) ==
    /\ after.translateX = clampTranslateX(RAdd(c.translateX, dx), c.timeScale, c.viewportWidth)
    /\ after.translateY = RAdd(c.translateY, dy)
    /\ after.scale = c.scale
    /\ after.timeScale = c.timeScale

\* the wheel events of a two-finger scroll: a trackpad event with neither Ctrl
\* nor Cmd
CvIsScroll(event) == CvIsTrackpad(event) /\ ~event.ctrlKey /\ ~event.metaKey

\* C16: a plain pan by a screen-space delta (dx, dy) -- a mouse drag, a
\* one-finger touch move, a two-finger scroll -- sets translateX to
\* clampTranslateX(translateX + dx) and translateY to translateY + dy, unclamped,
\* and leaves scale and timeScale unchanged (here: for every such event on every
\* state of a visible canvas).
C16_PanAddsTheDeltaAndClampsXOnly ==
    CvVisible =>
       /\ canvas.isPanning =>
             /\ \A event \in CvMouseEvents :
                   CvPanned(canvas, handleMouseMove(canvas, event),
                            RSub(Num(event.clientX), canvas.lastMouseX),
                            RSub(Num(event.clientY), canvas.lastMouseY))
             /\ \A p \in CvTouchPoints :
                   CvPanned(canvas, handleTouchMove(canvas, <<p>>),
                            RSub(Num(p.clientX), canvas.lastMouseX),
                            RSub(Num(p.clientY), canvas.lastMouseY))
       /\ \A event \in { e \in CvWheelEvents : CvIsScroll(e) } :
             CvPanned(canvas, handleWheel(canvas, cvRect, event),
                      Num(-event.deltaX), Num(-event.deltaY))

\* a drag, or a finger, has moved the canvas down by 3 while translateX, held
\* by a range of a single point, stayed where it was; or a two-finger scroll has
\* put translateY far below the element
C16_Witness ==
    /\ CvVisible
    /\ \/ /\ cvOps = 2
          /\ canvas.isPanning
          /\ canvas.lastMouseX = Num(4) /\ canvas.lastMouseY = Num(5)
          /\ canvas.translateY = RAdd(RDiv(cvRect.height, Num(2)), Num(3))
          /\ RSub(canvas.viewportWidth, RMul(Num(MAX_DAYS_FROM_EPOCH), canvas.timeScale))
                = RMul(Num(MAX_DAYS_FROM_EPOCH), canvas.timeScale)
       \/ /\ cvOps = 1
          /\ canvas.translateY = RAdd(RDiv(cvRect.height, Num(2)), Num(100))

-----------------------------------------------------------------------------
(* Specification of a timeline view: a vault with two timeline notes, a     *)
(* cache from earlier sessions, one timeline that can be referenced; the    *)
(* view is opened (its first collect) and then refreshed and edited.        *)

\* number of refreshes and edits on the open view
MaxEdits == 2

\* number of notes the vault can hold
MaxNotes == 3

\* pixels per day of the view
VwTimeScale == 2

VwRefIds == <<"r1">>

\* note ids: two that files carry from the start (a copied file carries the id
\* of its original) and the generated ones
VwIds == ({"given"} \X (1..2)) \cup ({"uuid"} \X (1..MaxNotes))

VwFile(iv, id) ==
    [dateStart |-> iv[1], dateEnd |-> iv[2], startText |-> "date", endText |-> "date",
     inScope |-> TRUE, timeline |-> TRUE, id |-> id]

VwVaults ==
    { << VwFile(iv1, Some(<<"given", 1>>)), VwFile(iv2, id2) >> :
        iv1 \in { <<0, 1>>, <<2, 2>> },
        iv2 \in { <<0, 0>>, <<1, 2>> },
        id2 \in { Some(<<"given", 2>>), Some(<<"given", 1>>), undefined } }

VwNoteCaches ==
    { [id \in VwIds |-> IF id = <<"given", 1>> THEN l1
                        ELSE IF id = <<"given", 2>> THEN l2 ELSE undefined] :
        l1 \in { undefined, Some(0), Some(1) }, l2 \in { undefined, Some(0) } }

\* the cached card of the referenced timeline and that timeline itself
VwCardSetups ==
    { [card |-> undefined, configured |-> TRUE,  span |-> Some([startDay |-> 0, endDay |-> 2])],
      [card |-> Some(0),   configured |-> TRUE,  span |-> Some([startDay |-> 0, endDay |-> 2])],
      [card |-> Some(0),   configured |-> FALSE, span |-> undefined],
      [card |-> undefined, configured |-> TRUE,  span |-> undefined] }

\* the orders in which getMarkdownFiles can list n files
VwOrders(n) == { p \in [1..n -> 1..n] : \A i, j \in 1..n : p[i] = p[j] => i = j }

\* drags: one day right, one layer down, one layer up, less than a layer
VwDrags == { [deltaX |-> VwTimeScale, deltaY |-> 0], [deltaX |-> 0, deltaY |-> GRID_SPACING],
             [deltaX |-> 0, deltaY |-> -GRID_SPACING], [deltaX |-> 1, deltaY |-> 20] }

VwResizes == { [edge |-> "right", deltaX |-> VwTimeScale], [edge |-> "left", deltaX |-> -VwTimeScale],
               [edge |-> "right", deltaX |-> -1] }

VwInit ==
    /\ PkIdle
    /\ ZmIdle
    /\ CvIdle
    /\ GmIdle
    /\ SvIdle
    /\ vwFiles \in VwVaults
    /\ vwNotes \in VwNoteCaches
    /\ \E setup \in VwCardSetups :
          /\ vwCards = [r \in {"r1"} |-> setup.card]
          /\ vwRefs = [r \in {"r1"} |-> [configured |-> setup.configured, span |-> setup.span]]
    /\ vwItems = <<>>
    /\ vwPc = "closed"
    /\ vwLast = "none"
    /\ vwEdits = 0

\* The list a view shows: the notes of collectTimelineItems and the timeline
\* cards of collectTimelineCards, one list of TimelineItem.
timelineItems(noteItems, cardItems) == noteItems \o cardItems

VwState == [items |-> vwItems, files |-> vwFiles, notes |-> vwNotes, cards |-> vwCards]

\* an operation of CardOperations or NoteCreator on the open view
VwEdit(after) ==
    /\ vwPc = "open"
    /\ vwEdits < MaxEdits
    /\ vwItems' = after.items
    /\ vwFiles' = after.files
    /\ vwNotes' = after.notes
    /\ vwCards' = after.cards
    /\ vwLast' = "edit"
    /\ vwEdits' = vwEdits + 1
    /\ UNCHANGED <<vwRefs, vwPc>>
    /\ VwFrame

\* The view rebuilds its list: collectTimelineItems, then the timeline cards
\* appended.  getOrCreateNoteId gives every file without a timeline-id one; the
\* lookups of this pass see it for the files in seen only.
VwCollect(order, seen) ==
    LET kept == layerableFiles(vwFiles, order)
        filesAfter == [f \in 1..Len(vwFiles) |->
                          IF IsDefined(vwFiles[f].id) \/ \A k \in 1..Len(kept) : kept[k] # f
                          THEN vwFiles[f]
                          ELSE [vwFiles[f] EXCEPT !.id = Some(randomUUID(f))]]
        lookup == [f \in 1..Len(vwFiles) |-> IF f \in seen THEN filesAfter[f] ELSE vwFiles[f]]
        notes == collectTimelineItems(vwNotes, lookup, order, VwTimeScale)
        cards == collectTimelineCards(vwCards, VwRefIds, vwRefs, VwTimeScale)
    IN  /\ vwItems' = timelineItems(notes.items, cards.items)
        /\ vwNotes' = notes.notes
        /\ vwCards' = cards.cards
        /\ vwFiles' = filesAfter
        /\ vwLast' = IF \A f \in 1..Len(lookup) : IsDefined(lookup[f].id)
                     THEN "collect" ELSE "collectWithoutIds"
        /\ UNCHANGED vwRefs
        /\ VwFrame

\* the files getOrCreateNoteId has to give an id
VwWithoutId == { f \in 1..Len(vwFiles) : ~IsDefined(vwFiles[f].id) }

VwOpen ==
    /\ vwPc = "closed"
    /\ \E order \in VwOrders(Len(vwFiles)), seen \in SUBSET VwWithoutId :
          VwCollect(order, seen)
    /\ vwPc' = "open"
    /\ UNCHANGED vwEdits

VwRefresh ==
    /\ vwPc = "open"
    /\ vwEdits < MaxEdits
    /\ \E order \in VwOrders(Len(vwFiles)), seen \in SUBSET VwWithoutId :
          VwCollect(order, seen)
    /\ vwEdits' = vwEdits + 1
    /\ UNCHANGED vwPc

VwResizeItem ==
    \E index \in 1..Len(vwItems), r \in VwResizes :
        VwEdit(resizeItem(VwState, index, r.edge, r.deltaX, VwTimeScale))

VwMoveItem ==
    \E index \in 1..Len(vwItems), d \in VwDrags :
        VwEdit(moveItem(VwState, index, d.deltaX, d.deltaY, VwTimeScale))

VwChangeItemLayer ==
    \E index \in 1..Len(vwItems), newLayer \in {0, 1} :
        VwEdit(changeItemLayer(VwState, index, newLayer, vwItems[index].x,
                               vwItems[index].width, VwTimeScale))

VwCreateNoteFromClick ==
    /\ Len(vwFiles) < MaxNotes
    /\ \E snappedStartDay \in {0, 3}, worldY \in {0, -GRID_SPACING} :
          VwEdit(createNoteFromClick(VwState, snappedStartDay, 3, worldY, VwTimeScale))

VwAddTimelineCard ==
    \E k \in 1..Len(VwRefIds) :
        VwEdit([VwState EXCEPT !.cards = addTimelineCard(vwItems, vwCards, vwRefs, VwRefIds[k])])

VwNext ==
    \/ VwOpen \/ VwRefresh
    \/ VwResizeItem \/ VwMoveItem \/ VwChangeItemLayer
    \/ VwCreateNoteFromClick \/ VwAddTimelineCard

SpecView == VwInit /\ [][VwNext]_vars

-----------------------------------------------------------------------------
(* Claims on the view *)

\* the layer the list shows for the note of a file
VwLayerOf(items, file) ==
    LET k == CHOOSE k \in 1..Len(items) : items[k].type = "note" /\ items[k].file = file
    IN  items[k].layer

VwNoteFiles(items) == { items[k].file : k \in { k \in 1..Len(items) : items[k].type = "note" } }

\* C8: in the item list of an open view, whatever collects, refreshes, note
\* creations, timeline cards added, moves, resizes and layer changes led to it,
\* no two items (notes or timeline cards) on the same layer have overlapping
\* date ranges.
C8_NoOverlapOnALayerInTheView ==
    vwPc = "open" =>
        \A i, j \in 1..Len(vwItems) :
            (i # j /\ vwItems[i].layer = vwItems[j].layer) =>
                ~rangesOverlap(vwItems[i].dateStart, vwItems[i].dateEnd,
                               vwItems[j].dateStart, vwItems[j].dateEnd)

\* a refresh that follows a collect directly, both passes finding a note id
\* for every file
VwRerun ==
    /\ vwPc = "open"
    /\ vwLast = "collect"
    /\ vwLast' = "collect"
    /\ vwEdits' = vwEdits + 1

VwSameLayers ==
    /\ VwNoteFiles(vwItems') = VwNoteFiles(vwItems)
    /\ \A f \in VwNoteFiles(vwItems) : VwLayerOf(vwItems', f) = VwLayerOf(vwItems, f)

\* C9: when assignLayersWithCache runs again on the same notes (all with note
\* ids, dates unchanged), in whatever order, every note gets exactly the layer
\* the previous run gave it.
C9_NoChurnOnRerun == [][VwRerun => VwSameLayers]_vars

\* the same with no two files carrying the same note id
C9_NoChurnOnRerunDistinctIds ==
    [][(VwRerun /\ \A f, g \in 1..Len(vwFiles) : vwFiles[f].id = vwFiles[g].id => f = g)
          => VwSameLayers]_vars

-----------------------------------------------------------------------------
(* Specification of the geometry functions: any call of any of them, one    *)
(* after the other.                                                         *)

GmWorldXs == { Num(-6), Num(-3), Num(0), Num(2), Num(5), Num(9) }

GmCardWidths == { Num(0), Num(1), Num(2), Num(4), Num(20) }

\* scale: the limits of clampScale, 1, and the degenerate 0
GmScales == { Num(0), Frac(1, 2), Num(1), Num(2) }

GmTranslateXs == { Num(-4), Num(0), Num(4), Num(8) }

GmViewportWidths == { Num(0), Num(4), Num(8) }

GmBoundsCalls(fn) ==
    [fn : {fn}, worldX : GmWorldXs, worldWidth : GmCardWidths, scale : GmScales,
     translateX : GmTranslateXs, viewportWidth : GmViewportWidths]

GmWorldYs == { Num(-3), Num(0), Num(5) }

GmCardHeights == { Num(1) }

GmTranslateYs == { Num(0), Num(2) }

GmViewportHeights == { Num(0), Num(4) }

GmViewports ==
    [width : GmViewportWidths, height : GmViewportHeights, translateX : GmTranslateXs,
     translateY : GmTranslateYs, scale : GmScales]

GmRenderCalls ==
    [fn : {"calculateRenderData"},
     card : [x : GmWorldXs, y : GmWorldYs, width : GmCardWidths, height : GmCardHeights],
     viewport : GmViewports]

\* values handed to the clamps: below, at, between and above the bounds
GmClampScales == { Num(-3), Num(0), Frac(1, 4), Frac(1, 2), Num(1), Num(2), Num(3) }

\* time scales: negative, zero, below and at the floor of the widths, above
GmClampTimeScales == { Num(-1), Num(0), Frac(1, 8), Frac(1, 4), Frac(1, 2), Num(1), Num(10) }

\* viewport widths, among them a negative one, zero and one far too wide for
\* the small time scales
GmClampWidths == { Num(-4), Num(0), Num(4), Num(8), Num(40) }

GmClampTranslateXs == { Num(-100), Num(-6), Num(0), Num(2), Num(6), Num(8), Num(80), Num(100) }

GmClampCalls ==
    [fn : {"clampScale"}, s : GmClampScales]
        \cup [fn : {"clampTimeScale"}, ts : GmClampTimeScales, viewportWidth : GmClampWidths]
        \cup [fn : {"clampTranslateX"}, translateX : GmClampTranslateXs,
              timeScale : GmClampTimeScales, viewportWidth : GmClampWidths]

\* conversions of a point by CameraSystem, in any of the viewports
GmPointCalls(fn) == [fn : {fn}, x : GmWorldXs, y : GmWorldYs, viewport : GmViewports]

\* conversions of a point by the functions next to calculateClampedBounds
GmConversionCalls(fn) ==
    [fn : {fn}, x : GmWorldXs, y : GmWorldYs, scale : GmScales,
     translateX : GmTranslateXs, translateY : GmTranslateYs]

GmZoomTimeScales == { Frac(1, 2), Num(10) }

GmAnchorXs == { Num(0), Num(4) }

GmAnchorYs == { Num(0), Num(2) }

\* one notch of the wheel in and out
GmMultipliers == { Frac(9, 10), Frac(11, 10) }

\* zooms of any current state, the scale 0 and the viewport width 0 among them
GmZoomCalls ==
    [fn : {"zoomUnified", "zoomTimeScaleOnly"},
     anchorScreenX : GmAnchorXs, anchorScreenY : GmAnchorYs, zoomMultiplier : GmMultipliers,
     current : [scale : GmScales, timeScale : GmZoomTimeScales,
                translateX : GmTranslateXs, translateY : GmTranslateYs],
     viewportWidth : GmViewportWidths]

GmDays == { Num(-MAX_DAYS_FROM_EPOCH), Num(-1), Num(0), Frac(1, 2), Num(3), Num(MAX_DAYS_FROM_EPOCH) }

\* the screen position of a day: dayToWorldX(day, timeScale) + translateX
GmDayCalls ==
    [fn : {"dayToScreenX"}, day : GmDays, timeScale : { Frac(1, 4), Num(1), Num(10) },
     translateX : GmTranslateXs]

\* layers from -GmMaxLayer to GmMaxLayer
GmMaxLayer == 3

GmLayers == (-GmMaxLayer)..GmMaxLayer

\* every y of the bands of these layers
GmYs == layerToY(GmMaxLayer)..(layerToY(-GmMaxLayer) + GRID_SPACING - 1)

\* drags of an item: a pitch up and down, more, less, to the last pixel of a band
GmDeltaYs == { -GRID_SPACING - 10, -GRID_SPACING, -1, 0, 20, GRID_SPACING - 1, GRID_SPACING,
               GRID_SPACING + 25 }

GmLayerCalls ==
    [fn : {"layerToY"}, layer : GmLayers]
        \cup [fn : {"yToLayer"}, y : GmYs]
        \cup [fn : {"moveItem"}, type : {"note", "timeline"}, layer : GmLayers,
              deltaX : {0, VwTimeScale}, deltaY : GmDeltaYs]

\* the view of a moveItem call: one item, a note of a file with an id or the
\* card of the referenced timeline, on the layer of the call
GmMoveView ==
    [items |-> << [type |-> gmCall.type, file |-> IF gmCall.type = "note" THEN 1 ELSE 0,
                   timelineId |-> IF gmCall.type = "note" THEN "" ELSE "r1",
                   x |-> 0, y |-> layerToY(gmCall.layer), width |-> VwTimeScale,
                   dateStart |-> 0, dateEnd |-> 1,
                   layer |-> Some(gmCall.layer), parsed |-> TRUE] >>,
     files |-> << VwFile(<<0, 1>>, Some(<<"given", 1>>)) >>,
     notes |-> [id \in VwIds |-> IF id = <<"given", 1>> THEN Some(gmCall.layer) ELSE undefined],
     cards |-> [r \in {"r1"} |-> IF gmCall.type = "note" THEN undefined ELSE Some(gmCall.layer)]]

\* the files a vault can hold: well-formed timeline notes, notes with a
\* missing or an invalid date, a note outside the root path and a note that
\* is no timeline note
GmVaultFiles ==
    { [VwFile(iv, undefined) EXCEPT !.startText = st, !.endText = et] :
        iv \in { <<0, 1>>, <<1, 2>> },
        st \in {"date"}, et \in {"date"} }
    \cup { [VwFile(<<0, 2>>, undefined) EXCEPT !.startText = t[1], !.endText = t[2]] :
            t \in { <<"missing", "date">>, <<"date", "missing">>,
                     <<"text", "date">>, <<"date", "text">> } }
    \cup { [VwFile(<<0, 2>>, undefined) EXCEPT !.inScope = FALSE],
            [VwFile(<<0, 2>>, undefined) EXCEPT !.timeline = FALSE] }

\* vaults of three files; the first two carry a note id
GmVaults ==
    { << [f1 EXCEPT !.id = Some(<<"given", 1>>)], [f2 EXCEPT !.id = Some(<<"given", 2>>)], f3 >> :
        f1 \in GmVaultFiles, f2 \in GmVaultFiles, f3 \in GmVaultFiles }

GmCollectCalls ==
    { [fn |-> "collectTimelineItems", files |-> files, notes |-> notes, order |-> order] :
        files \in GmVaults, notes \in VwNoteCaches, order \in VwOrders(Len(<<1, 2, 3>>)) }

\* runtime items of a layer-busy check: a layer, a day range and whether the
\* date strings of the item parse
GmBusyItems ==
    [layer : {Some(0), Some(1)}, parsed : BOOLEAN, dateStart : {0, 2}, dateEnd : {2}]

GmBusyCalls ==
    { [fn |-> "isLayerBusyForItems", targetLayer |-> l, dateStart |-> iv[1], dateEnd |-> iv[2],
       items |-> <<i1, i2>>] :
        l \in {0, 1}, iv \in { <<0, 1>>, <<1, 2>> }, i1 \in GmBusyItems, i2 \in GmBusyItems }

\* the calls that can be made
GmCalls ==
    GmBoundsCalls("calculateClampedBounds")
        \cup GmBoundsCalls("ViewportClamping.calculateClampedBounds")
        \cup GmRenderCalls
        \cup GmClampCalls
        \cup GmPointCalls("CameraSystem.worldToViewport")
        \cup GmPointCalls("CameraSystem.viewportToWorld")
        \cup [fn : {"CameraSystem.getVisibleWorldBounds"}, viewport : GmViewports]
        \cup GmConversionCalls("screenToWorld")
        \cup GmConversionCalls("worldToScreen")
        \cup GmConversionCalls("ViewportClamping.screenToWorld")
        \cup GmConversionCalls("ViewportClamping.worldToScreen")
        \cup GmZoomCalls
        \cup GmDayCalls
        \cup GmLayerCalls
        \cup GmCollectCalls
        \cup GmBusyCalls

GmInit ==
    /\ PkIdle
    /\ ZmIdle
    /\ CvIdle
    /\ VwIdle
    /\ SvIdle
    /\ gmCall \in GmCalls
    /\ gmResult = [fn |-> "none"]

\* the call gmCall of the function fn returns
GmReturn(fn, result) ==
    /\ gmCall.fn = fn
    /\ gmResult = [fn |-> "none"]
    /\ gmResult' = result
    /\ UNCHANGED gmCall
    /\ GmFrame

GmCalculateClampedBounds ==
    GmReturn("calculateClampedBounds",
             calculateClampedBounds(gmCall.worldX, gmCall.worldWidth, gmCall.scale,
                                    gmCall.translateX, gmCall.viewportWidth))

GmViewportClampingCalculateClampedBounds ==
    GmReturn("ViewportClamping.calculateClampedBounds",
             ViewportClamping_calculateClampedBounds(
                 gmCall.worldX, gmCall.worldWidth, gmCall.scale,
                 gmCall.translateX, gmCall.viewportWidth))

GmCalculateRenderData ==
    GmReturn("calculateRenderData", calculateRenderData(gmCall.card, gmCall.viewport))

GmClampScale == GmReturn("clampScale", [value |-> clampScale(gmCall.s)])

GmClampTimeScale ==
    GmReturn("clampTimeScale", [value |-> clampTimeScale(gmCall.ts, gmCall.viewportWidth)])

GmClampTranslateX ==
    GmReturn("clampTranslateX",
             [value |-> clampTranslateX(gmCall.translateX, gmCall.timeScale,
                                        gmCall.viewportWidth)])

GmWorldToViewport ==
    GmReturn("CameraSystem.worldToViewport",
             worldToViewport(gmCall.x, gmCall.y, gmCall.viewport))

GmViewportToWorld ==
    GmReturn("CameraSystem.viewportToWorld",
             viewportToWorld(gmCall.x, gmCall.y, gmCall.viewport))

GmGetVisibleWorldBounds ==
    GmReturn("CameraSystem.getVisibleWorldBounds", getVisibleWorldBounds(gmCall.viewport))

GmScreenToWorld ==
    GmReturn("screenToWorld",
             screenToWorld(gmCall.x, gmCall.y, gmCall.scale, gmCall.translateX,
                           gmCall.translateY))

GmWorldToScreen ==
    GmReturn("worldToScreen",
             worldToScreen(gmCall.x, gmCall.y, gmCall.scale, gmCall.translateX,
                           gmCall.translateY))

GmViewportClampingScreenToWorld ==
    GmReturn("ViewportClamping.screenToWorld",
             ViewportClamping_screenToWorld(gmCall.x, gmCall.y, gmCall.scale,
                                            gmCall.translateX, gmCall.translateY))

GmViewportClampingWorldToScreen ==
    GmReturn("ViewportClamping.worldToScreen",
             ViewportClamping_worldToScreen(gmCall.x, gmCall.y, gmCall.scale,
                                            gmCall.translateX, gmCall.translateY))

GmZoomUnified ==
    GmReturn("zoomUnified",
             zoomUnified(gmCall.anchorScreenX, gmCall.anchorScreenY, gmCall.zoomMultiplier,
                         gmCall.current, gmCall.viewportWidth))

GmZoomTimeScaleOnly ==
    GmReturn("zoomTimeScaleOnly",
             zoomTimeScaleOnly(gmCall.anchorScreenX, gmCall.zoomMultiplier,
                               gmCall.current, gmCall.viewportWidth))

GmDayToScreenX ==
    GmReturn("dayToScreenX",
             [value |-> RAdd(dayToWorldX(gmCall.day, gmCall.timeScale), gmCall.translateX)])

GmLayerToY == GmReturn("layerToY", [value |-> layerToY(gmCall.layer)])

GmYToLayer == GmReturn("yToLayer", [value |-> yToLayer(gmCall.y)])

GmMoveItem ==
    GmReturn("moveItem", moveItem(GmMoveView, 1, gmCall.deltaX, gmCall.deltaY, VwTimeScale))

GmCollectTimelineItems ==
    GmReturn("collectTimelineItems",
             collectTimelineItems(gmCall.notes, gmCall.files, gmCall.order, VwTimeScale))

GmIsLayerBusyForItems ==
    GmReturn("isLayerBusyForItems",
             [value |-> isLayerBusyForItems(gmCall.targetLayer, gmCall.dateStart,
                                            gmCall.dateEnd, gmCall.items)])

GmNext ==
    \/ GmCalculateClampedBounds
    \/ GmViewportClampingCalculateClampedBounds
    \/ GmCalculateRenderData
    \/ GmClampScale
    \/ GmClampTimeScale
    \/ GmClampTranslateX
    \/ GmWorldToViewport
    \/ GmViewportToWorld
    \/ GmGetVisibleWorldBounds
    \/ GmScreenToWorld
    \/ GmWorldToScreen
    \/ GmViewportClampingScreenToWorld
    \/ GmViewportClampingWorldToScreen
    \/ GmZoomUnified
    \/ GmZoomTimeScaleOnly
    \/ GmDayToScreenX
    \/ GmLayerToY
    \/ GmYToLayer
    \/ GmMoveItem
    \/ GmCollectTimelineItems
    \/ GmIsLayerBusyForItems

SpecGeometry == GmInit /\ [][GmNext]_vars

-----------------------------------------------------------------------------
(* Claims on the geometry functions *)

\* the screen extent of the entity of a call, X without scale
GmScreenLeft == RAdd(gmCall.worldX, gmCall.translateX)

GmScreenRight == RAdd(GmScreenLeft, gmCall.worldWidth)

GmFullyOutside == RLt(GmScreenRight, Num(0)) \/ RLt(gmCall.viewportWidth, GmScreenLeft)

\* the call has returned
GmReturned == gmResult # [fn |-> "none"]

GmOutsideExactly ==
    /\ gmResult.isCompletelyOutside <=> GmFullyOutside
    /\ gmResult.isCompletelyOutside => gmResult.visualWidth = Num(0)

\* C11: calculateClampedBounds reports isCompletelyOutside exactly when
\* screenRight < 0 or screenLeft > viewportWidth, with screenLeft = worldX +
\* translateX and screenRight = screenLeft + width (no scale), and then
\* visualWidth = 0; an entity touching a viewport edge is not outside.
C11_OutsideExactly ==
    (GmReturned /\ gmCall.fn \in {"calculateClampedBounds",
                                   "ViewportClamping.calculateClampedBounds"})
        => GmOutsideExactly

\* the same for the text without scale on X alone
C11_OutsideExactlyWithoutScale ==
    (GmReturned /\ gmCall.fn = "calculateClampedBounds") => GmOutsideExactly

\* the viewport window and the entity in world X
GmWindowLeft == RSub(Num(0), gmCall.translateX)

GmWindowRight == RSub(gmCall.viewportWidth, gmCall.translateX)

GmEntityRight == RAdd(gmCall.worldX, gmCall.worldWidth)

GmRectLeft == RAdd(RMul(gmCall.card.x, gmCall.viewport.scale), gmCall.viewport.translateX)

GmRectRight == RAdd(GmRectLeft, RMul(gmCall.card.width, gmCall.viewport.scale))

GmRectTop == RAdd(RMul(gmCall.card.y, gmCall.viewport.scale), gmCall.viewport.translateY)

GmRectBottom == RAdd(GmRectTop, RMul(gmCall.card.height, gmCall.viewport.scale))

\* the rectangle and the viewport [0, width] x [0, height] have a point in common
GmRectIntersectsViewport ==
    /\ RLe(Num(0), GmRectRight)
    /\ RLe(GmRectLeft, gmCall.viewport.width)
    /\ RLe(Num(0), GmRectBottom)
    /\ RLe(GmRectTop, gmCall.viewport.height)

GmRendered == GmReturned /\ gmCall.fn = "calculateRenderData"

\* C13: calculateRenderData returns visible = false exactly when the screen
\* rectangle of the card does not intersect the viewport, and every result
\* with visible = false has width = 0.
C13_OutsideIsInvisibleAndEmpty ==
    GmRendered =>
        /\ ~gmResult.visible <=> ~GmRectIntersectsViewport
        /\ ~gmResult.visible => gmResult.width = Num(0)

\* the first half alone, for scale > 0
C13_InvisibleExactlyWhenOutside ==
    (GmRendered /\ RLt(Num(0), gmCall.viewport.scale)) =>
        (~gmResult.visible <=> ~GmRectIntersectsViewport)

\* C14: for every card calculateRenderData reports visible (scale > 0, card
\* width >= 0) the rectangle handed to the renderer lies in the viewport:
\* 0 <= x <= viewport.width, width >= 0 and x + width <= viewport.width; and
\* clampedLeft / clampedRight are set exactly when the unclamped left edge is
\* < 0 / the unclamped right edge is > viewport.width.
C14_RenderedWithinTheViewport ==
    (/\ GmRendered
     /\ RLt(Num(0), gmCall.viewport.scale)
     /\ RLe(Num(0), gmCall.card.width)
     /\ gmResult.visible)
    => /\ RLe(Num(0), gmResult.x)
       /\ RLe(gmResult.x, gmCall.viewport.width)
       /\ RLe(Num(0), gmResult.width)
       /\ RLe(RAdd(gmResult.x, gmResult.width), gmCall.viewport.width)
       /\ gmResult.clampedLeft <=> RLt(GmRectLeft, Num(0))
       /\ gmResult.clampedRight <=> RLt(gmCall.viewport.width, GmRectRight)

\* a visible card cut on the right only, drawn up to the right edge
C14_Witness ==
    /\ GmRendered
    /\ RLt(Num(0), gmCall.viewport.scale)
    /\ gmResult.visible
    /\ gmResult.clampedRight
    /\ ~gmResult.clampedLeft
    /\ RLt(Num(0), gmResult.x)
    /\ RAdd(gmResult.x, gmResult.width) = gmCall.viewport.width
    /\ RLt(gmResult.width, RMul(gmCall.card.width, gmCall.viewport.scale))

\* C18: each clamp is idempotent for all inputs, including viewport widths <= 0
\* and a timeScale below the floor: clamping the value a clamp returned, with
\* the same timeScale and viewport width, returns that value.
C18_ClampsAreIdempotent ==
    GmReturned =>
       /\ gmCall.fn = "clampScale" => clampScale(gmResult.value) = gmResult.value
       /\ gmCall.fn = "clampTimeScale"
             => clampTimeScale(gmResult.value, gmCall.viewportWidth) = gmResult.value
       /\ gmCall.fn = "clampTranslateX"
             => clampTranslateX(gmResult.value, gmCall.timeScale, gmCall.viewportWidth)
                   = gmResult.value

\* clampTranslateX has returned from a call whose range is empty (the viewport
\* is wider than the time scale allows): the value is the lower end of the
\* range, above its upper end, and not the translateX handed in
C18_Witness ==
    /\ gmCall.fn = "clampTranslateX"
    /\ GmReturned
    /\ LET maxTX == RMul(Num(MAX_DAYS_FROM_EPOCH), gmCall.timeScale)
           minTX == RSub(gmCall.viewportWidth, RMul(Num(MAX_DAYS_FROM_EPOCH), gmCall.timeScale))
       IN  /\ RLt(maxTX, minTX)
           /\ RLt(gmCall.timeScale, getMinTimeScale(gmCall.viewportWidth))
           /\ gmResult.value = minTX
           /\ gmResult.value # gmCall.translateX

\* the functions that take a viewport record
GmCameraFns ==
    {"CameraSystem.worldToViewport", "CameraSystem.viewportToWorld",
     "CameraSystem.getVisibleWorldBounds", "calculateRenderData"}

\* the scale and the viewport width of a call, where it has them
GmCallScale ==
    IF gmCall.fn \in GmCameraFns
    THEN gmCall.viewport.scale
    ELSE IF gmCall.fn \in {"zoomUnified", "zoomTimeScaleOnly"} THEN gmCall.current.scale
    ELSE gmCall.scale

GmCallWidth ==
    IF gmCall.fn \in GmCameraFns
    THEN gmCall.viewport.width
    ELSE gmCall.viewportWidth

GmConversionFns ==
    {"screenToWorld", "worldToScreen", "ViewportClamping.screenToWorld",
     "ViewportClamping.worldToScreen"}

GmBoundsFns == {"calculateClampedBounds", "ViewportClamping.calculateClampedBounds"}

\* the call is one of the functions fns and its viewport is degenerate
GmDegenerate(fns) ==
    /\ gmCall.fn \in fns
    /\ GmReturned
    /\ \/ GmCallScale = Num(0)
       \/ gmCall.fn \notin GmConversionFns /\ GmCallWidth = Num(0)

\* what C19 asks of the conversions of CameraSystem and CardCameraRenderer
GmCameraNeutral ==
    /\ GmDegenerate({"CameraSystem.worldToViewport", "CameraSystem.viewportToWorld"}) =>
          /\ IsFinite(gmResult.x) /\ IsFinite(gmResult.y)
          /\ GmCallScale = Num(0) => gmResult = [x |-> Num(0), y |-> Num(0)]
    /\ GmDegenerate({"CameraSystem.getVisibleWorldBounds"}) =>
          /\ IsFinite(gmResult.left) /\ IsFinite(gmResult.right)
          /\ IsFinite(gmResult.top) /\ IsFinite(gmResult.bottom)
          /\ GmCallScale = Num(0)
                => gmResult = [left |-> Num(0), right |-> Num(0),
                               top |-> Num(0), bottom |-> Num(0)]
    /\ GmDegenerate({"calculateRenderData"}) =>
          /\ IsFinite(gmResult.x) /\ IsFinite(gmResult.y) /\ IsFinite(gmResult.width)
          /\ GmCallScale = Num(0)
                => /\ ~gmResult.visible
                   /\ gmResult.x = Num(0) /\ gmResult.y = Num(0) /\ gmResult.width = Num(0)

\* what C19 asks of screenToWorld and calculateClampedBounds, in the texts fns
GmClampingFinite(fns) ==
    /\ GmDegenerate(fns \cap {"screenToWorld", "ViewportClamping.screenToWorld"}) =>
          IsFinite(gmResult.worldX) /\ IsFinite(gmResult.worldY)
    /\ GmDegenerate(fns \cap GmBoundsFns) =>
          IsFinite(gmResult.visualX) /\ IsFinite(gmResult.visualWidth)

\* what C19 asks of the two zoom functions
GmZoomFinite(fns) ==
    /\ GmDegenerate(fns \cap {"zoomUnified"}) =>
          /\ IsFinite(gmResult.scale) /\ IsFinite(gmResult.timeScale)
          /\ IsFinite(gmResult.translateX) /\ IsFinite(gmResult.translateY)
    /\ GmDegenerate(fns \cap {"zoomTimeScaleOnly"}) =>
          IsFinite(gmResult.timeScale) /\ IsFinite(gmResult.translateX)

\* C19: with a degenerate viewport (scale = 0 or viewport width 0) every
\* conversion and zoom returns a defined finite result: worldToViewport,
\* viewportToWorld and getVisibleWorldBounds of CameraSystem return zeros,
\* calculateRenderData an invisible zero rectangle, screenToWorld and
\* calculateClampedBounds finite values, zoomUnified and zoomTimeScaleOnly a
\* state whose fields are finite.
C19_DegenerateViewportIsNeutral ==
    /\ GmCameraNeutral
    /\ GmClampingFinite({"screenToWorld", "ViewportClamping.screenToWorld"} \cup GmBoundsFns)
    /\ GmZoomFinite({"zoomUnified", "zoomTimeScaleOnly"})

\* the part of C19 that holds: everything but zoomUnified and the screenToWorld
\* of utils/ViewportClamping.ts
C19_NeutralButUnifiedZoom ==
    /\ GmCameraNeutral
    /\ GmClampingFinite({"screenToWorld"} \cup GmBoundsFns)
    /\ GmZoomFinite({"zoomTimeScaleOnly"})

\* zoomUnified alone
C19_UnifiedZoomIsFinite == GmZoomFinite({"zoomUnified"})

\* C20: world-to-screen and screen-to-world are inverse: for every viewport
\* with scale # 0 and every world point p, viewportToWorld(worldToViewport(p))
\* = p in CameraSystem and screenToWorld(worldToScreen(p)) = p, and the day read
\* back from the screen position of a day d is d.
C20_RoundTrip ==
    GmReturned =>
       /\ (gmCall.fn = "CameraSystem.worldToViewport" /\ gmCall.viewport.scale # Num(0))
             => viewportToWorld(gmResult.x, gmResult.y, gmCall.viewport)
                   = [x |-> gmCall.x, y |-> gmCall.y]
       /\ (gmCall.fn = "worldToScreen" /\ gmCall.scale # Num(0))
             => screenToWorld(gmResult.screenX, gmResult.screenY, gmCall.scale,
                              gmCall.translateX, gmCall.translateY)
                   = [worldX |-> gmCall.x, worldY |-> gmCall.y]
       /\ (gmCall.fn = "ViewportClamping.worldToScreen" /\ gmCall.scale # Num(0))
             => ViewportClamping_screenToWorld(gmResult.screenX, gmResult.screenY,
                                               gmCall.scale, gmCall.translateX,
                                               gmCall.translateY)
                   = [worldX |-> gmCall.x, worldY |-> gmCall.y]
       /\ gmCall.fn = "dayToScreenX"
             => screenXToDay(gmResult.value, gmCall.timeScale, gmCall.translateX) = gmCall.day

\* worldToViewport has returned the screen position of a point off both axes
\* in a viewport that is zoomed and moved in X and in Y
C20_Witness ==
    /\ gmCall.fn = "CameraSystem.worldToViewport"
    /\ GmReturned
    /\ gmCall.viewport.scale \notin {Num(0), Num(1)}
    /\ gmCall.viewport.translateX # Num(0) /\ gmCall.viewport.translateY # Num(0)
    /\ gmCall.x # Num(0) /\ gmCall.y # Num(0)
    /\ gmResult.x # gmCall.x /\ gmResult.y # gmCall.y

\* the non-zero scales a second viewport state can have
GmOtherScales == GmScales \ {Num(0)}

\* the X results of a call of fn do not change when the scale of its viewport
\* is replaced by another non-zero scale, and they are the sums without scale
GmXWithoutScale(fn) ==
    (gmCall.fn = fn /\ GmReturned /\ GmCallScale # Num(0)) =>
       \A scale \in GmOtherScales :
          CASE fn = "CameraSystem.worldToViewport" ->
                  /\ gmResult.x = RAdd(gmCall.x, gmCall.viewport.translateX)
                  /\ worldToViewport(gmCall.x, gmCall.y,
                                     [gmCall.viewport EXCEPT !.scale = scale]).x = gmResult.x
            [] fn = "CameraSystem.viewportToWorld" ->
                  /\ gmResult.x = RSub(gmCall.x, gmCall.viewport.translateX)
                  /\ viewportToWorld(gmCall.x, gmCall.y,
                                     [gmCall.viewport EXCEPT !.scale = scale]).x = gmResult.x
            [] fn = "worldToScreen" ->
                  /\ gmResult.screenX = RAdd(gmCall.x, gmCall.translateX)
                  /\ worldToScreen(gmCall.x, gmCall.y, scale, gmCall.translateX,
                                   gmCall.translateY).screenX = gmResult.screenX
            [] fn = "screenToWorld" ->
                  /\ gmResult.worldX = RSub(gmCall.x, gmCall.translateX)
                  /\ screenToWorld(gmCall.x, gmCall.y, scale, gmCall.translateX,
                                   gmCall.translateY).worldX = gmResult.worldX
            [] fn = "calculateClampedBounds" ->
                  calculateClampedBounds(gmCall.worldX, gmCall.worldWidth, scale,
                                         gmCall.translateX, gmCall.viewportWidth) = gmResult
            [] fn = "ViewportClamping.worldToScreen" ->
                  /\ gmResult.screenX = RAdd(gmCall.x, gmCall.translateX)
                  /\ ViewportClamping_worldToScreen(gmCall.x, gmCall.y, scale, gmCall.translateX,
                                                    gmCall.translateY).screenX = gmResult.screenX
            [] fn = "ViewportClamping.screenToWorld" ->
                  /\ gmResult.worldX = RSub(gmCall.x, gmCall.translateX)
                  /\ ViewportClamping_screenToWorld(gmCall.x, gmCall.y, scale, gmCall.translateX,
                                                    gmCall.translateY).worldX = gmResult.worldX
            [] fn = "ViewportClamping.calculateClampedBounds" ->
                  ViewportClamping_calculateClampedBounds(
                      gmCall.worldX, gmCall.worldWidth, scale,
                      gmCall.translateX, gmCall.viewportWidth) = gmResult
            [] fn = "calculateRenderData" ->
                  LET other == calculateRenderData(gmCall.card,
                                                   [gmCall.viewport EXCEPT !.scale = scale])
                  IN  /\ other.x = gmResult.x
                      /\ other.width = gmResult.width
                      /\ other.clampedLeft = gmResult.clampedLeft
                      /\ other.clampedRight = gmResult.clampedRight

\* C21: the X axis excludes scale in every module: for any two viewport states
\* that differ only in a non-zero scale the X results are equal (screenX =
\* worldX + translateX, worldX = screenX - translateX, screen width = world
\* width) in worldToViewport / viewportToWorld of CameraSystem, in screenToWorld
\* / worldToScreen / calculateClampedBounds of ViewportClamping and in
\* calculateRenderData of CardCameraRenderer.
C21_XExcludesScale ==
    \A fn \in {"CameraSystem.worldToViewport", "CameraSystem.viewportToWorld",
                "worldToScreen", "screenToWorld", "calculateClampedBounds",
                "ViewportClamping.worldToScreen", "ViewportClamping.screenToWorld",
                "ViewportClamping.calculateClampedBounds", "calculateRenderData"} :
       GmXWithoutScale(fn)

\* the part of C21 that holds: CameraSystem and the text of ViewportClamping
\* that computes X without scale
C21_XExcludesScaleInCameraSystem ==
    \A fn \in {"CameraSystem.worldToViewport", "CameraSystem.viewportToWorld",
                "worldToScreen", "screenToWorld", "calculateClampedBounds"} :
       GmXWithoutScale(fn)

\* calculateRenderData alone
C21_XExcludesScaleInRenderData == GmXWithoutScale("calculateRenderData")

\* clampTimeScale has returned from a call with a positive viewport width: 0
\* and every ts below the floor w / (2 * MAX_DAYS) come back as the floor,
\* which is positive
GmTimeScaleRaisedToFloor ==
    (gmCall.fn = "clampTimeScale" /\ GmReturned /\ RLt(Num(0), gmCall.viewportWidth)) =>
       LET floor == RDiv(gmCall.viewportWidth, Num(2 * MAX_DAYS_FROM_EPOCH))
       IN  /\ RLt(Num(0), floor)
           /\ getMinTimeScale(gmCall.viewportWidth) = floor
           /\ RLt(gmCall.ts, floor) => gmResult.value = floor

\* C22 as stated: for every viewport width w > 0, clampTimeScale(0, w) =
\* minTimeScale(w) = w / (2 * MAX_DAYS) > 0 and any ts below it is raised to it;
\* with viewport width 0, clampTimeScale(ts, 0) is the zero-width fallback for
\* every ts.
C22_FallbackForEveryTimeScale ==
    /\ GmTimeScaleRaisedToFloor
    /\ (gmCall.fn = "clampTimeScale" /\ GmReturned /\ gmCall.viewportWidth = Num(0))
          => gmResult.value = ZERO_WIDTH_MIN_TIME_SCALE

\* C22 amended: for every viewport width w > 0, clampTimeScale(0, w) =
\* minTimeScale(w) = w / (2 * MAX_DAYS) > 0 and any ts below it is raised to it;
\* with viewport width 0, clampTimeScale(ts, 0) is the zero-width fallback for
\* every ts at or below the fallback, and ts itself for every ts above it.
C22_FallbackIsAFloor ==
    /\ GmTimeScaleRaisedToFloor
    /\ (gmCall.fn = "clampTimeScale" /\ GmReturned /\ gmCall.viewportWidth = Num(0))
          => gmResult.value = IF RLe(gmCall.ts, ZERO_WIDTH_MIN_TIME_SCALE)
                              THEN ZERO_WIDTH_MIN_TIME_SCALE
                              ELSE gmCall.ts

\* clampTimeScale has returned a time scale above the fallback from a call
\* with viewport width 0
C22_Witness ==
    /\ gmCall.fn = "clampTimeScale"
    /\ GmReturned
    /\ gmCall.viewportWidth = Num(0)
    /\ RLt(ZERO_WIDTH_MIN_TIME_SCALE, gmCall.ts)
    /\ gmResult.value = gmCall.ts

\* C23: layer and Y correspond with a fixed pitch: layerToY(0) = 0,
\* layerToY(L + 1) = layerToY(L) - GRID_SPACING for every integer L,
\* yToLayer(layerToY(L)) = L, and every y with layerToY(L) <= y < layerToY(L) +
\* GRID_SPACING maps to L; a moved card is snapped so that afterwards its y
\* equals layerToY(its layer), the layer of the y it was dragged to.
C23_LayerPitchAndSnap ==
    GmReturned =>
       /\ gmCall.fn = "layerToY" =>
             /\ gmCall.layer = 0 => gmResult.value = 0
             /\ layerToY(gmCall.layer + 1) = gmResult.value - GRID_SPACING
             /\ yToLayer(gmResult.value) = gmCall.layer
       /\ gmCall.fn = "yToLayer" =>
             /\ layerToY(gmResult.value) <= gmCall.y
             /\ gmCall.y < layerToY(gmResult.value) + GRID_SPACING
       /\ gmCall.fn = "moveItem" =>
             LET moved == gmResult.items[1]
                 newY == layerToY(gmCall.layer) + gmCall.deltaY
             IN  /\ IsDefined(moved.layer)
                 /\ moved.y = layerToY(ValueOf(moved.layer))
                 /\ moved.y <= newY /\ newY < moved.y + GRID_SPACING

\* an item on layer 1 has been dragged down by a pitch and a half, into the
\* middle of the band of layer 0: it lies on layer 0, snapped up to y = 0
C23_Witness ==
    /\ gmCall.fn = "moveItem"
    /\ GmReturned
    /\ gmCall.layer = 1
    /\ gmCall.deltaY = GRID_SPACING + 25
    /\ gmResult.items[1].layer = Some(0)
    /\ gmResult.items[1].y = 0

-----------------------------------------------------------------------------
(* Claims on the files a collect keeps *)

\* the files of the call whose date-start or date-end is missing or invalid
GmMalformed ==
    { f \in 1..Len(gmCall.files) :
        gmCall.files[f].startText # "date" \/ gmCall.files[f].endText # "date" }

\* the well-formed timeline files in scope
GmWellFormed ==
    { f \in 1..Len(gmCall.files) :
        /\ gmCall.files[f].inScope /\ gmCall.files[f].timeline
        /\ f \notin GmMalformed }

\* the listing of a vault that does not hold the malformed files
GmOrderWithoutMalformed ==
    LET Keep(f) == f \notin GmMalformed
    IN  SelectSeq(gmCall.order, Keep)

\* C24: collectTimelineItems skips every file whose date-start or date-end is
\* missing or does not parse: the returned items are exactly one per
\* well-formed timeline file in scope, each with the layer (and position) it
\* gets from a vault without the skipped files; and isLayerBusyForItems
\* answers as if the items whose dates do not parse were not in the list.
C24_MalformedDatesAreSkipped ==
    /\ (GmReturned /\ gmCall.fn = "collectTimelineItems") =>
          /\ \A k \in 1..Len(gmResult.items) : gmResult.items[k].file \notin GmMalformed
          /\ \A f \in GmWellFormed :
                Cardinality({ k \in 1..Len(gmResult.items) : gmResult.items[k].file = f }) = 1
          /\ Len(gmResult.items) = Cardinality(GmWellFormed)
          /\ gmResult.items =
                collectTimelineItems(gmCall.notes, gmCall.files, GmOrderWithoutMalformed,
                                     VwTimeScale).items
    /\ (GmReturned /\ gmCall.fn = "isLayerBusyForItems") =>
          gmResult.value =
             \E k \in 1..Len(gmCall.items) :
                /\ gmCall.items[k].parsed
                /\ gmCall.items[k].layer = Some(gmCall.targetLayer)
                /\ gmCall.dateStart <= gmCall.items[k].dateEnd
                /\ gmCall.items[k].dateStart <= gmCall.dateEnd

\* a note with an invalid date-start is listed first, before two well-formed
\* notes of overlapping ranges: the collect returns the two, on layers 0 and 1
C24_Witness ==
    /\ GmReturned
    /\ gmCall.fn = "collectTimelineItems"
    /\ gmCall.files[gmCall.order[1]].startText = "text"
    /\ GmWellFormed = { gmCall.order[2], gmCall.order[3] }
    /\ Len(gmResult.items) = 2
    /\ gmResult.items[1].layer = Some(0)
    /\ gmResult.items[2].layer = Some(1)

\* the list assignLayersWithCache hands to LayerManager.assignLayers in the
\* collect of the call
GmHandedToAssignLayers ==
    withCachedLayers(gmCall.notes, layerableItems(gmCall.files, gmCall.order), gmCall.files)

\* C25: the list that collectTimelineItems hands to assignLayers (via
\* assignLayersWithCache) is in ascending order of start day, ties by end
\* day, so that an interval is placed after every interval that starts
\* earlier.
C25_HandedListIsSorted ==
    (GmReturned /\ gmCall.fn = "collectTimelineItems") =>
        LET items == GmHandedToAssignLayers
        IN  \A i, j \in 1..Len(items) :
                i < j => \/ items[i].dateStart < items[j].dateStart
                         \/ /\ items[i].dateStart = items[j].dateStart
                            /\ items[i].dateEnd <= items[j].dateEnd

-----------------------------------------------------------------------------
(* Claims on saving and restoring the viewport of the canvas *)

\* elements without a width, without a height and without both
CvZeroRects == { [width |-> Num(0), height |-> Num(0)],
                 [width |-> Num(8), height |-> Num(0)],
                 [width |-> Num(0), height |-> Num(4)] }

\* the state satisfies the clamp invariants for an element of size rect
CvClampedFor(c, rect) ==
    /\ InScaleRange(c.scale)
    /\ RLe(getMinTimeScale(rect.width), c.timeScale)
    /\ InClampRange(c.translateX, c.timeScale, rect.width)

CvSameView(c, d) ==
    /\ d.scale = c.scale
    /\ d.timeScale = c.timeScale
    /\ d.translateX = c.translateX
    /\ d.translateY = c.translateY

\* C26: in every state of a mounted canvas whose element has a width and a
\* height and whose state satisfies the clamp invariants for that size,
\* getViewport returns a viewport and setViewport of it leaves scale,
\* timeScale, translateX and translateY as they are; for an element without
\* width or without height getViewport returns null.
C26_SaveRestoreRoundTrip ==
    CvMounted =>
        /\ \A rect \in CvZeroRects : getViewport(canvas, rect) = undefined
        /\ (hasValidDimensions(cvRect) /\ CvClampedFor(canvas, cvRect)) =>
              /\ IsDefined(getViewport(canvas, cvRect))
              /\ CvSameView(canvas,
                            setViewport(canvas, cvRect, ValueOf(getViewport(canvas, cvRect))))

\* a canvas that was panned and zoomed away from the default view, in an
\* element that has a size, with its state within the clamps
C26_Witness ==
    /\ CvSettled
    /\ cvOps > 0
    /\ CvClampedFor(canvas, cvRect)
    /\ canvas.scale # Num(1)
    /\ canvas.translateX # Num(0)
    /\ canvas.translateY # Num(0)
    /\ IsDefined(getViewport(canvas, cvRect))

\* C27 (deferral): setViewport for an element without width or height leaves
\* scale, timeScale, translateX, translateY and viewportRestored unchanged and
\* records the request, replacing an earlier one.
C27_ZeroSizeRestoreIsDeferred ==
    CvMounted =>
        \A rect \in CvZeroRects : \A viewport \in CvViewports :
            LET after == setViewport(canvas, rect, viewport)
            IN  /\ CvSameView(canvas, after)
                /\ after.viewportRestored = canvas.viewportRestored
                /\ after.pendingViewport = Some(viewport)

\* C27: a restore requested while the element has no width or height is
\* applied as soon as a resize notification reports a width and a height: once
\* the callback has run for an element that has a size, no request is pending.
C27_PendingAppliedOnResize ==
    (CvMounted /\ ~cvObserved /\ hasValidDimensions(cvRect)) =>
        ~IsDefined(canvas.pendingViewport)

-----------------------------------------------------------------------------
(* Specification of TimelineCacheService: the cache in memory, its file     *)
(* .timelines/timelines.json, the debounce timer of scheduleSave and the    *)
(* saveCache calls in progress.  The content of the cache is named by a     *)
(* number: -1 for what the file held before the plugin was loaded, 0 for    *)
(* the empty cache of the constructor, n for the cache after the n-th       *)
(* mutation.  A timer is named by the mutation that set it.                 *)

\* number of cache mutations
CsMaxMutations == 2

\* number of saveCache calls
CsMaxSaves == 3

CsInit ==
    /\ CoreIdle
    /\ SlIdle
    /\ PlIdle
    /\ csPc = "constructed"
    /\ csCache = 0
    /\ \/ csDisk = undefined /\ csDirExists \in BOOLEAN
       \/ csDisk = Some(-1) /\ csDirExists = TRUE
    /\ csTimers = {}
    /\ csSaveTimeout = undefined
    /\ csSaves = {}
    /\ csStarted = 0
    /\ csLastWritten = 0
    /\ csOverwritten = FALSE

\* initialize(): loadCache reads the file when there is one; isLoaded = true
CsInitialize ==
    /\ csPc = "constructed"
    /\ csPc' = "loaded"
    /\ csCache' = OrElse(csDisk, csCache)
    /\ UNCHANGED <<csDisk, csDirExists, csTimers, csSaveTimeout, csSaves, csStarted,
                   csLastWritten, csOverwritten>>
    /\ CsFrame

\* saveCache() up to its first await: nothing when not loaded, otherwise the
\* call waits for adapter.exists(CACHE_DIR_PATH)
saveCacheStarts ==
    IF csPc # "loaded" THEN UNCHANGED <<csSaves, csStarted>>
    ELSE /\ csStarted' = csStarted + 1
         /\ csSaves' = csSaves \cup {[save |-> csStarted + 1, pc |-> "exists", content |-> 0]}

\* a mutation of the cache that ends in scheduleSave(): setViewport,
\* setNoteLayer, setTimelineCardLayer, ...; the pending timer is cleared and a
\* new one set
CsSetViewport ==
    /\ csPc = "loaded"
    /\ Max(csCache, 0) < CsMaxMutations
    /\ csCache' = Max(csCache, 0) + 1
    /\ csTimers' = (csTimers \ csSaveTimeout) \cup {csCache'}
    /\ csSaveTimeout' = Some(csCache')
    /\ UNCHANGED <<csPc, csDisk, csDirExists, csSaves, csStarted, csLastWritten, csOverwritten>>
    /\ CsFrame

\* the callback of the setTimeout of scheduleSave; saveTimeout keeps the id
CsTimerFires ==
    /\ \E timer \in csTimers : csTimers' = csTimers \ {timer}
    /\ saveCacheStarts
    /\ UNCHANGED <<csPc, csCache, csDisk, csDirExists, csSaveTimeout, csLastWritten, csOverwritten>>
    /\ CsFrame

\* forceSave(): the timer in saveTimeout is cleared, then saveCache()
CsForceSave ==
    /\ csPc = "loaded"
    /\ csStarted < CsMaxSaves
    /\ csTimers' = csTimers \ csSaveTimeout
    /\ csSaveTimeout' = undefined
    /\ saveCacheStarts
    /\ UNCHANGED <<csPc, csCache, csDisk, csDirExists, csLastWritten, csOverwritten>>
    /\ CsFrame

\* a save goes on from position pc to the record next, the others wait
CsSaveGoesOn(save, next) == csSaves' = (csSaves \ {save}) \cup next

\* saveCache() after await adapter.exists: with the directory, the cache as it
\* is now is serialised and handed to adapter.write; without it, mkdir first
CsSaveDirChecked ==
    /\ \E save \in csSaves :
          /\ save.pc = "exists"
          /\ CsSaveGoesOn(save, IF csDirExists
                                 THEN {[save EXCEPT !.pc = "write", !.content = csCache]}
                                 ELSE {[save EXCEPT !.pc = "mkdir"]})
    /\ UNCHANGED <<csPc, csCache, csDisk, csDirExists, csTimers, csSaveTimeout, csStarted,
                   csLastWritten, csOverwritten>>
    /\ CsFrame

\* saveCache() after await adapter.mkdir
CsSaveDirMade ==
    /\ \E save \in csSaves :
          /\ save.pc = "mkdir"
          /\ CsSaveGoesOn(save, {[save EXCEPT !.pc = "write", !.content = csCache]})
    /\ csDirExists' = TRUE
    /\ UNCHANGED <<csPc, csCache, csDisk, csTimers, csSaveTimeout, csStarted,
                   csLastWritten, csOverwritten>>
    /\ CsFrame

\* adapter.write of a save completes: the file holds its content.  The writes
\* of two saves in progress complete in either order.
CsSaveWritten ==
    /\ \E save \in csSaves :
          /\ save.pc = "write"
          /\ CsSaveGoesOn(save, {})
          /\ csDisk' = Some(save.content)
          /\ csLastWritten' = save.save
          /\ csOverwritten' = (csOverwritten \/ csLastWritten > save.save)
    /\ UNCHANGED <<csPc, csCache, csDirExists, csTimers, csSaveTimeout, csStarted>>
    /\ CsFrame

CsNext ==
    \/ CsInitialize
    \/ CsSetViewport
    \/ CsTimerFires
    \/ CsForceSave
    \/ CsSaveDirChecked
    \/ CsSaveDirMade
    \/ CsSaveWritten

SpecCache == CsInit /\ [][CsNext]_vars

\* no save is in progress and no timer is pending
CsQuiet == csSaves = {} /\ csTimers = {}

\* C28: after initialize(), once every started save has completed and no
\* timer is pending, the file holds the cache that is in memory.
C28_DiskConvergesToCache ==
    (csPc = "loaded" /\ csStarted > 0 /\ CsQuiet) => csDisk = Some(csCache)

\* C28 (order of the saves): the write of a save never replaces what a save
\* that started later has written.
C28_EarlierSaveNeverOverwritesLater == ~csOverwritten

\* C28 (timer): at most one debounce timer is pending.
C28_AtMostOneTimerPending == Cardinality(csTimers) <= 1

-----------------------------------------------------------------------------
(* SelectionManager.  m = [selectedIndices, activeIndex, selectedCardData]; *)
(* the Set selectedIndices is the sequence of its members in insertion      *)
(* order, the overlay data is named by the index of the card it describes.  *)

\* updateCardData: nothing for an index outside the list of length itemCount
updateCardData(m, index, itemCount) ==
    IF index < 0 \/ index >= itemCount THEN m
    ELSE [m EXCEPT !.selectedCardData = Some(index)]

select(m, index, itemCount) ==
    updateCardData([m EXCEPT !.selectedIndices = <<index>>, !.activeIndex = Some(index)],
                   index, itemCount)

\* Set.has
SlHas(selectedIndices, index) ==
    \E k \in 1..Len(selectedIndices) : selectedIndices[k] = index

\* Set.delete
SlDelete(selectedIndices, index) ==
    LET Other(i) == i # index
    IN  SelectSeq(selectedIndices, Other)

\* Array.from(selectedIndices).pop() ?? null
SlLastSelected(selectedIndices) ==
    IF selectedIndices = <<>> THEN undefined
    ELSE Some(selectedIndices[Len(selectedIndices)])

\* a plausible slip: the active card is kept when it leaves the selection
toggle_keepActive(m, index, itemCount) ==
    LET toggled ==
            IF SlHas(m.selectedIndices, index)
            THEN [m EXCEPT !.selectedIndices = SlDelete(m.selectedIndices, index)]
            ELSE [m EXCEPT !.selectedIndices = Append(m.selectedIndices, index),
                           !.activeIndex = Some(index)]
    IN  IF IsDefined(toggled.activeIndex)
        THEN updateCardData(toggled, ValueOf(toggled.activeIndex), itemCount)
        ELSE [toggled EXCEPT !.selectedCardData = undefined]

toggle(m, index, itemCount) ==
    LET toggled ==
            IF SlHas(m.selectedIndices, index)
            THEN LET rest == SlDelete(m.selectedIndices, index)
                 IN  [m EXCEPT !.selectedIndices = rest,
                               !.activeIndex = IF m.activeIndex = Some(index)
                                               THEN SlLastSelected(rest)
                                               ELSE m.activeIndex]
            ELSE [m EXCEPT !.selectedIndices = Append(m.selectedIndices, index),
                           !.activeIndex = Some(index)]
    IN  IF IsDefined(toggled.activeIndex)
        THEN updateCardData(toggled, ValueOf(toggled.activeIndex), itemCount)
        ELSE [toggled EXCEPT !.selectedCardData = undefined]

clear(m) ==
    [selectedIndices |-> <<>>, activeIndex |-> undefined, selectedCardData |-> undefined]

-----------------------------------------------------------------------------
(* Specification of SelectionManager: any sequence of select, toggle, clear *)

\* number of calls
SlMaxCalls == 5

\* items.length of the view
SlItemCount == 2

\* the indices of the calls: those of the items and one beyond the list
SlIndices == 0..SlItemCount

SlInit ==
    /\ CoreIdle
    /\ CsIdle
    /\ PlIdle
    /\ slSelected = <<>>
    /\ slActive = undefined
    /\ slCardData = undefined
    /\ slLast = [op |-> "new", index |-> 0, active |-> undefined]
    /\ slCalls = 0

SlState ==
    [selectedIndices |-> slSelected, activeIndex |-> slActive, selectedCardData |-> slCardData]

\* the call op(index) returns with the manager in the state after
SlCall(op, index, after) ==
    /\ slCalls < SlMaxCalls
    /\ slSelected' = after.selectedIndices
    /\ slActive' = after.activeIndex
    /\ slCardData' = after.selectedCardData
    /\ slLast' = [op |-> op, index |-> index, active |-> slActive]
    /\ slCalls' = slCalls + 1
    /\ SlFrame

SlSelect == \E index \in SlIndices : SlCall("select", index, select(SlState, index, SlItemCount))

SlToggle == \E index \in SlIndices : SlCall("toggle", index, toggle(SlState, index, SlItemCount))

SlClear == SlCall("clear", 0, clear(SlState))

SlNext == SlSelect \/ SlToggle \/ SlClear

SpecSelection == SlInit /\ [][SlNext]_vars

\* the members of selectedIndices
SlMembers(selectedIndices) == { selectedIndices[k] : k \in 1..Len(selectedIndices) }

\* C29: after any sequence of select, toggle and clear calls activeIndex is
\* null exactly when selectedIndices is empty and otherwise a member of it;
\* select(i) leaves selectedIndices = {i}; toggling an index twice restores
\* the set of selected indices.
C29_ActiveConsistentWithSelection ==
    /\ (slActive = undefined) <=> (slSelected = <<>>)
    /\ slActive \subseteq SlMembers(slSelected)
    /\ \A k, j \in 1..Len(slSelected) : slSelected[k] = slSelected[j] => k = j
    /\ slLast.op = "select" => slSelected = <<slLast.index>>
    /\ \A index \in SlIndices :
          /\ select(SlState, index, SlItemCount).selectedIndices = <<index>>
          /\ SlMembers(toggle(toggle(SlState, index, SlItemCount), index,
                               SlItemCount).selectedIndices) = SlMembers(slSelected)

\* the active card has just been toggled out of a selection of several cards:
\* the card selected last among the others is the active one
C29_Witness ==
    /\ slLast.op = "toggle"
    /\ slLast.active = Some(slLast.index)
    /\ ~SlHas(slSelected, slLast.index)
    /\ Len(slSelected) = 2
    /\ slActive = Some(slSelected[2])

-----------------------------------------------------------------------------
(* Specification of TimelinePlugin: the vault 'create' handler, its         *)
(* debounce timer, handleFileCreate and onunload, with one timeline view    *)
(* open.  A file is its number in the order of creation with what the       *)
(* metadata cache and the view show for it when the timer fires.            *)

\* number of files created
PlMaxCreates == 3

\* the files the vault can report as created
PlFiles ==
    [path : 1..PlMaxCreates,
     md : BOOLEAN,              \* a TFile with extension md
     timeline : BOOLEAN,        \* frontmatter timeline === true
     inScope : BOOLEAN,         \* under the root path of the view
     alreadyPresent : BOOLEAN]  \* the view holds a note of this path

\* handleFileCreate(file): whether it calls view.scheduleRefresh()
handleFileCreate(file) == file.timeline /\ file.inScope /\ ~file.alreadyPresent

\* the created file is one the view has to pick up
PlToPickUp(file) == file.md /\ file.timeline /\ file.inScope /\ ~file.alreadyPresent

PlInit ==
    /\ CoreIdle
    /\ CsIdle
    /\ SlIdle
    /\ plPc = "loaded"
    /\ plTimeout = undefined
    /\ plWaiting = {}
    /\ plHandled = {}
    /\ plCreates = 0

\* the vault 'create' event: for a markdown file the pending timer is cleared
\* and a timer for this file set
PlCreate ==
    /\ plPc = "loaded"
    /\ plCreates < PlMaxCreates
    /\ \E file \in PlFiles :
          /\ file.path = plCreates + 1
          /\ plTimeout' = IF file.md THEN Some(file) ELSE plTimeout
          /\ plWaiting' = IF PlToPickUp(file) THEN plWaiting \cup {file} ELSE plWaiting
    /\ plCreates' = plCreates + 1
    /\ UNCHANGED <<plPc, plHandled>>
    /\ PlFrame

\* the setTimeout callback, 100 ms after the last create: fileCreateTimeout =
\* null, then handleFileCreate for the file of that create.  A refresh of the
\* view collects every file of the vault.
PlTimerFires ==
    /\ IsDefined(plTimeout)
    /\ plTimeout' = undefined
    /\ plHandled' = plHandled \cup plTimeout
    /\ plWaiting' = IF handleFileCreate(ValueOf(plTimeout)) THEN {} ELSE plWaiting
    /\ UNCHANGED <<plPc, plCreates>>
    /\ PlFrame

\* onunload: the pending timer is cleared; the registered events end
PlUnload ==
    /\ plPc = "loaded"
    /\ plPc' = "unloaded"
    /\ plTimeout' = undefined
    /\ UNCHANGED <<plWaiting, plHandled, plCreates>>
    /\ PlFrame

PlNext == PlCreate \/ PlTimerFires \/ PlUnload

SpecPlugin == PlInit /\ [][PlNext]_vars

\* a timer that is pending fires
SpecPluginLive == SpecPlugin /\ WF_vars(PlTimerFires)

\* C30: every created markdown file that is a timeline file, in the scope of
\* the open view and not shown there causes a refresh of the view: while the
\* plugin is loaded and no deferred handler is pending, no such file is
\* waiting to be picked up.
C30_NoCreatedFileLeftBehind ==
    (plPc = "loaded" /\ plTimeout = undefined) => plWaiting = {}

\* C30 (as a progress property, the pending timer firing): a created file the
\* view has to pick up is eventually picked up, unless the plugin is unloaded.
C30_CreatedFileIsEventuallyPickedUp ==
    \A file \in PlFiles :
        (file \in plWaiting) ~> (file \notin plWaiting \/ plPc = "unloaded")

\* C30 (one file): handleFileCreate runs for a file only when no other
\* markdown file was created after it, and then the view is refreshed.
C30_LastCreatedFileIsHandled ==
    \A file \in plHandled :
        /\ file.md
        /\ PlToPickUp(file) => file \notin plWaiting

\* C30 (unload): after unload no deferred handler is pending.
C30_NoHandlerAfterUnload ==
    plPc = "unloaded" => plTimeout = undefined

====
